---- MODULE Spec2Model ----
(***************************************************************************)
(* Verification model of the epstl library.                                *)
(*                                                                         *)
(*   - pipeline<T>   (include/pipeline.hpp, lines 308-507): one worker     *)
(*     thread per stage, a waiting list feeding stage 0, a one-datum slot  *)
(*     per stage, the in-flight counter and the end condition variable.    *)
(*   - worker_thread (the worker pool header): a bounded number of         *)
(*     threads and a backlog of tasks.                                     *)
(*   - map<key_t, item_t> (the ordered map header): a binary search tree   *)
(*     of heap nodes with parent links, rebalanced by single rotations;    *)
(*     one action is one whole call of insert or erase.                    *)
(*   - quadtree<key_t, item_t> (include/quadtree.hpp): a point quadtree    *)
(*     over a square centred on the origin; a tree is a nested record      *)
(*     value, one action is one whole call of insert, remove or            *)
(*     set_behaviour_flag.                                                 *)
(*   - quadtree_region<key_t> (include/quadtree_region.hpp): the boolean   *)
(*     quadtree that merges uniform blocks; one action is one whole call   *)
(*     of set or unset.                                                    *)
(*                                                                         *)
(* Every thread is a small program-counter machine; one action is one      *)
(* step of the code between two points at which another thread can         *)
(* observe or change the shared state.                                     *)
(***************************************************************************)
EXTENDS Integers, Sequences, FiniteSets, TLC

\* ------------------------------------------------------------------ bounds
\* Largest number of stages added with add_process before the first feed.
MaxStages == 2
\* Largest number of feed calls of the client thread.
MaxFeed == 3
\* Largest number of stop / wait_end calls of the client thread.
MaxCalls == 2
\* Largest value std::thread::hardware_concurrency() is taken to return.
MaxHardwareThreads == 2
\* Largest number of tasks submitted to the worker pool.
MaxTasks == 3
\* Largest key given to the map (the keys are 1 .. MaxKey).
MaxKey == 5
\* Largest number of insert / erase calls made on the map.
MaxOps == 6
\* Width and height of the root quadrant of the quadtrees.
MaxWidth == 4
\* Largest number of calls made on a point quadtree.
MaxQuadOps == 4
\* Largest number of set / unset calls made on a region quadtree.
MaxRegionOps == 5

VARIABLES
    \* ---- pipeline<T> (pipeline.hpp:326-347)
    m_waiting_list,         \* std::deque<T>: the fed data not yet taken by stage 0
    m_waiting_list_access,  \* std::mutex: "free", or its holder "worker" / "client"
    m_passing_arguments,    \* per stage: the datum in its slot, or Null
    m_mutexes,              \* per stage: "free", or its holder "own" / "prev" / "client"
    m_continue,             \* bool
    m_jobs_in_pipeline,     \* std::atomic_size_t
    m_process_count,        \* size_t: number of stages
    wpc,                    \* per stage: where its worker thread is in execute_process
    arg,                    \* per stage: the local `arg` of execute_process
    ret,                    \* per stage: the local `ret` of execute_process
    cpc,                    \* where the client thread is (feed, stop, wait_end)
    ci,                     \* the client's loop index inside stop()
    inWaitEnd,              \* the running stop() was called by wait_end()
    \* ---- history of the pipeline (not read by any action)
    fed,                    \* number of feed calls started
    calls,                  \* number of stop / wait_end calls started
    started,                \* per stage: ids of the data it started to transform, in order
    finished,               \* ids of the data the final stage has finished, in order
    \* ---- worker_thread (worker pool header, lines 171-183)
    max_threads,            \* static const unsigned: std::thread::hardware_concurrency()
    m_active_threads,       \* static unsigned: number of active threads
    wt_waiting_list,        \* worker_thread::m_waiting_list: the backlog of works
    m_mutex,                \* static std::mutex: the set of its holders (empty: unlocked)
    m_workers,              \* std::vector<std::thread>: the threads spawned, by number
    wtpc,                   \* per pool thread: where it is in worker()
    wtwork,                 \* per pool thread: the work it holds (0: none)
    mpc,                    \* where the submitting thread is (new_work, wait_for_join)
    joining,                \* the thread wait_for_join is blocked on in join() (0: none)
    joined,                 \* the threads of m_workers that were joined (not joinable any more)
    terminated,             \* std::terminate was called: the process is gone
    \* ---- history of the pool (not read by any action)
    submitted,              \* number of new_work calls started
    ran,                    \* per work: how many times its run() was called
    raised,                 \* the works whose callable threw
    joinSubmitted,          \* number of new_work calls started when wait_for_join was last called
    joinSpawned,            \* the threads spawned when wait_for_join was last called
    \* ---- map<key_t, item_t> (ordered map header, lines 29-36 and 288-291)
    nodes,                  \* the heap of node_t: per address, its fields and whether it is allocated
    m_root,                 \* node_t*: the root of the tree (Nil: nullptr)
    m_size,                 \* epstl::size_t: the cached number of items
    mfault,                 \* the last operation did not return (crash or endless loop)
    \* ---- history of the map (not read by any action)
    nops,                   \* number of insert / erase calls made
    lastOp,                 \* the last call: "none", "insert" or "erase"
    lastKey,                \* its key
    lastItem,               \* its item (insert)
    lastRet,                \* what it returned (insert: a boolean, erase: the size)
    ref,                     \* a reference sorted map fed the same calls: per key its item, or 0
    \* ---- quadtree<key_t, item_t> (quadtree.hpp:269-278)
    q_root,                 \* quadtree::m_root: << >> (nullptr) or <<the root quadrant>>
    q_size,                 \* quadtree::m_size (uint32_t), as a signed residue: -1 is 2^32 - 1
    q_depth,                \* quadtree::m_depth
    m_default_value,        \* item_t
    m_behaviour_flag,       \* uint8_t
    \* ---- history of the quadtree (not read by the code)
    q_ops,                  \* number of calls made
    q_call,                 \* the last call and its arguments
    q_ref                   \* the content a reference container holds after the same calls

pvars == <<m_waiting_list, m_waiting_list_access, m_passing_arguments, m_mutexes,
           m_continue, m_jobs_in_pipeline, m_process_count, wpc, arg, ret, cpc, ci,
           inWaitEnd, fed, calls, started, finished>>

\* worker_thread (the worker pool)
wvars == <<max_threads, m_active_threads, wt_waiting_list, m_mutex, m_workers,
           wtpc, wtwork, mpc, joining, joined, terminated, submitted, ran, raised,
           joinSubmitted, joinSpawned>>

\* What wait_for_join and a throwing work change, and the other pool actions leave alone.
wjoin == <<joining, joined, terminated, raised, joinSubmitted, joinSpawned>>

\* map (the ordered map)
mvars == <<nodes, m_root, m_size, mfault, nops, lastOp, lastKey, lastItem, lastRet, ref>>

qvars == <<q_root, q_size, q_depth, m_default_value, m_behaviour_flag, q_ops, q_call, q_ref>>

vars == <<pvars, wvars, mvars, qvars>>

\* What the pipeline's actions leave alone, what the pool's actions leave alone,
\* and what the map's actions leave alone.
notPipeline == <<wvars, mvars, qvars>>
notPool == <<pvars, mvars, qvars>>
notMap == <<pvars, wvars, qvars>>
notQuad == <<pvars, wvars, mvars>>

\* ================================================================ pipeline

\* A datum travelling through the pipeline: the feed it comes from and the
\* number of transforms applied to it.  Null is the nullptr of a slot.
Null == [id |-> 0, hops |-> 0]

Stages == 0 .. (m_process_count - 1)

\* process<type_in, type_out>::operator(): a new box holding the transformed value.
Process(d) == [id |-> d.id, hops |-> d.hops + 1]

\* PopFront, had the pop been forgotten.
PopFront_Forgotten(q) == q

\* m_waiting_list.pop_front()
PopFront(q) == Tail(q)

\* std::condition_variable::notify_all on stage s's condition variable:
\* a worker blocked in wait() becomes runnable (it still has to re-lock its mutex).
NotifyAll(pcs, s) == [pcs EXCEPT ![s] = IF @ = "waiting" THEN "woken" ELSE @]

PInit ==
    /\ m_process_count \in 1 .. MaxStages
    /\ m_waiting_list = <<>>
    /\ m_waiting_list_access = "free"
    /\ m_passing_arguments = [s \in 0 .. (m_process_count - 1) |-> Null]
    /\ m_mutexes = [s \in 0 .. (m_process_count - 1) |-> "free"]
    /\ m_continue = TRUE
    /\ m_jobs_in_pipeline = 0
    /\ wpc = [s \in 0 .. (m_process_count - 1) |-> "loop"]
    /\ arg = [s \in 0 .. (m_process_count - 1) |-> Null]
    /\ ret = [s \in 0 .. (m_process_count - 1) |-> Null]
    /\ cpc = "idle"
    /\ ci = 0
    /\ inWaitEnd = FALSE
    /\ fed = 0
    /\ calls = 0
    /\ started = [s \in 0 .. (m_process_count - 1) |-> <<>>]
    /\ finished = <<>>

\* ------------------------------------------------- execute_process (worker)

\* while (m_continue)
WhileContinue(s) ==
    /\ wpc[s] = "loop"
    /\ wpc' = [wpc EXCEPT ![s] = IF m_continue THEN "lock" ELSE "done"]
    /\ UNCHANGED <<m_waiting_list, m_waiting_list_access, m_passing_arguments, m_mutexes,
                   m_continue, m_jobs_in_pipeline, m_process_count, arg, ret, cpc, ci,
                   inWaitEnd, fed, calls, started, finished>>
    /\ UNCHANGED notPipeline

\* void* arg = nullptr; std::unique_lock<std::mutex> lock(*(m_mutexes.at(process_id)));
LockOwn(s) ==
    /\ wpc[s] = "lock"
    /\ m_mutexes[s] = "free"
    /\ m_mutexes' = [m_mutexes EXCEPT ![s] = "own"]
    /\ arg' = [arg EXCEPT ![s] = Null]
    /\ wpc' = [wpc EXCEPT ![s] = IF s > 0 THEN "pred" ELSE "pred0"]
    /\ UNCHANGED <<m_waiting_list, m_waiting_list_access, m_passing_arguments,
                   m_continue, m_jobs_in_pipeline, m_process_count, ret, cpc, ci,
                   inWaitEnd, fed, calls, started, finished>>
    /\ UNCHANGED notPipeline

\* The predicate of stage s > 0, evaluated with m_mutexes[s] held:
\* m_passing_arguments.at(process_id) != nullptr || !m_continue
Pred(s) ==
    /\ wpc[s] = "pred"
    /\ wpc' = [wpc EXCEPT ![s] =
                 IF m_passing_arguments[s] # Null \/ ~m_continue THEN "chk" ELSE "wait"]
    /\ UNCHANGED <<m_waiting_list, m_waiting_list_access, m_passing_arguments, m_mutexes,
                   m_continue, m_jobs_in_pipeline, m_process_count, arg, ret, cpc, ci,
                   inWaitEnd, fed, calls, started, finished>>
    /\ UNCHANGED notPipeline

\* The predicate of stage 0, first half: m_waiting_list_access.lock();
\* if (m_waiting_list.size() > 0) return true;  (the mutex stays locked)
\* m_waiting_list_access.unlock();
Pred0(s) ==
    /\ wpc[s] = "pred0"
    /\ m_waiting_list_access = "free"
    /\ IF Len(m_waiting_list) > 0
       THEN /\ m_waiting_list_access' = "worker"
            /\ wpc' = [wpc EXCEPT ![s] = "chk"]
       ELSE /\ m_waiting_list_access' = "free"
            /\ wpc' = [wpc EXCEPT ![s] = "pred0c"]
    /\ UNCHANGED <<m_waiting_list, m_passing_arguments, m_mutexes,
                   m_continue, m_jobs_in_pipeline, m_process_count, arg, ret, cpc, ci,
                   inWaitEnd, fed, calls, started, finished>>
    /\ UNCHANGED notPipeline

\* The predicate of stage 0, second half: return !m_continue;
Pred0Continue(s) ==
    /\ wpc[s] = "pred0c"
    /\ wpc' = [wpc EXCEPT ![s] = IF ~m_continue THEN "chk" ELSE "wait"]
    /\ UNCHANGED <<m_waiting_list, m_waiting_list_access, m_passing_arguments, m_mutexes,
                   m_continue, m_jobs_in_pipeline, m_process_count, arg, ret, cpc, ci,
                   inWaitEnd, fed, calls, started, finished>>
    /\ UNCHANGED notPipeline

\* condition_variable::wait(lock) after the predicate was false:
\* the mutex is released and the thread blocks, atomically.
CvWait(s) ==
    /\ wpc[s] = "wait"
    /\ m_mutexes' = [m_mutexes EXCEPT ![s] = "free"]
    /\ wpc' = [wpc EXCEPT ![s] = "waiting"]
    /\ UNCHANGED <<m_waiting_list, m_waiting_list_access, m_passing_arguments,
                   m_continue, m_jobs_in_pipeline, m_process_count, arg, ret, cpc, ci,
                   inWaitEnd, fed, calls, started, finished>>
    /\ UNCHANGED notPipeline

\* condition_variable::wait may return without a notification.
SpuriousWakeup(s) ==
    /\ wpc[s] = "waiting"
    /\ wpc' = [wpc EXCEPT ![s] = "woken"]
    /\ UNCHANGED <<m_waiting_list, m_waiting_list_access, m_passing_arguments, m_mutexes,
                   m_continue, m_jobs_in_pipeline, m_process_count, arg, ret, cpc, ci,
                   inWaitEnd, fed, calls, started, finished>>
    /\ UNCHANGED notPipeline

\* wait(lock) returning: the mutex is locked again, the predicate is evaluated again.
CvRelock(s) ==
    /\ wpc[s] = "woken"
    /\ m_mutexes[s] = "free"
    /\ m_mutexes' = [m_mutexes EXCEPT ![s] = "own"]
    /\ wpc' = [wpc EXCEPT ![s] = IF s > 0 THEN "pred" ELSE "pred0"]
    /\ UNCHANGED <<m_waiting_list, m_waiting_list_access, m_passing_arguments,
                   m_continue, m_jobs_in_pipeline, m_process_count, arg, ret, cpc, ci,
                   inWaitEnd, fed, calls, started, finished>>
    /\ UNCHANGED notPipeline

\* After the wait: if (!m_continue) return;   (the unique_lock unlocks m_mutexes[s];
\* nothing unlocks m_waiting_list_access)
\* stage s > 0: if (slot == nullptr) throw ...; arg = m_passing_arguments.at(process_id);
\* stage 0: arg = new T(m_waiting_list.front()); m_waiting_list.pop_front();
\*          m_waiting_list_access.unlock();
TakeArgument(s) ==
    /\ wpc[s] = "chk"
    /\ IF ~m_continue
       THEN /\ m_mutexes' = [m_mutexes EXCEPT ![s] = "free"]
            /\ wpc' = [wpc EXCEPT ![s] = "done"]
            /\ UNCHANGED <<m_waiting_list, m_waiting_list_access, arg, started>>
       ELSE IF s > 0
            THEN IF m_passing_arguments[s] = Null
                 THEN /\ m_mutexes' = [m_mutexes EXCEPT ![s] = "free"]
                      /\ wpc' = [wpc EXCEPT ![s] = "threw"]
                      /\ UNCHANGED <<m_waiting_list, m_waiting_list_access, arg, started>>
                 ELSE /\ arg' = [arg EXCEPT ![s] = m_passing_arguments[s]]
                      /\ started' = [started EXCEPT ![s] = Append(@, m_passing_arguments[s].id)]
                      /\ wpc' = [wpc EXCEPT ![s] = "run"]
                      /\ UNCHANGED <<m_waiting_list, m_waiting_list_access, m_mutexes>>
            ELSE /\ arg' = [arg EXCEPT ![s] = Head(m_waiting_list)]
                 /\ started' = [started EXCEPT ![s] = Append(@, Head(m_waiting_list).id)]
                 /\ m_waiting_list' = PopFront(m_waiting_list)
                 /\ m_waiting_list_access' = "free"
                 /\ wpc' = [wpc EXCEPT ![s] = "run"]
                 /\ UNCHANGED m_mutexes
    /\ UNCHANGED <<m_passing_arguments, m_continue, m_jobs_in_pipeline, m_process_count,
                   ret, cpc, ci, inWaitEnd, fed, calls, finished>>
    /\ UNCHANGED notPipeline

\* Transform, had the worker released its own mutex before running the transform.
Transform_Unlocked(s) ==
    /\ wpc[s] = "run"
    /\ ret' = [ret EXCEPT ![s] = Process(arg[s])]
    /\ m_mutexes' = [m_mutexes EXCEPT ![s] = "free"]
    /\ wpc' = [wpc EXCEPT ![s] = IF s + 1 < m_process_count THEN "handoff" ELSE "final"]
    /\ UNCHANGED <<m_waiting_list, m_waiting_list_access, m_passing_arguments,
                   m_continue, m_jobs_in_pipeline, m_process_count, arg, cpc, ci,
                   inWaitEnd, fed, calls, started, finished>>
    /\ UNCHANGED notPipeline

\* void* ret = (*p)(arg);   (m_mutexes[s] is held during the transform)
Transform(s) ==
    /\ wpc[s] = "run"
    /\ ret' = [ret EXCEPT ![s] = Process(arg[s])]
    /\ wpc' = [wpc EXCEPT ![s] = IF s + 1 < m_process_count THEN "handoff" ELSE "final"]
    /\ UNCHANGED <<m_waiting_list, m_waiting_list_access, m_passing_arguments, m_mutexes,
                   m_continue, m_jobs_in_pipeline, m_process_count, arg, cpc, ci,
                   inWaitEnd, fed, calls, started, finished>>
    /\ UNCHANGED notPipeline

\* std::lock_guard<std::mutex> lockNext(*m_mutexes.at(process_id + 1));
\* m_passing_arguments.at(process_id + 1) = ret;
\* m_passing_arguments.at(process_id) = nullptr;
HandoffLock(s) ==
    /\ wpc[s] = "handoff"
    /\ m_mutexes[s + 1] = "free"
    /\ m_mutexes' = [m_mutexes EXCEPT ![s + 1] = "prev"]
    /\ m_passing_arguments' = [m_passing_arguments EXCEPT ![s + 1] = ret[s], ![s] = Null]
    /\ wpc' = [wpc EXCEPT ![s] = "unlock"]
    /\ UNCHANGED <<m_waiting_list, m_waiting_list_access,
                   m_continue, m_jobs_in_pipeline, m_process_count, arg, ret, cpc, ci,
                   inWaitEnd, fed, calls, started, finished>>
    /\ UNCHANGED notPipeline

\* lock.unlock(); m_semaphores.at(process_id + 1)->notify_all();  } (lockNext unlocks)
HandoffUnlock(s) ==
    /\ wpc[s] = "unlock"
    /\ m_mutexes' = [m_mutexes EXCEPT ![s] = "free", ![s + 1] = "free"]
    /\ wpc' = [NotifyAll(wpc, s + 1) EXCEPT ![s] = "loop"]
    /\ UNCHANGED <<m_waiting_list, m_waiting_list_access, m_passing_arguments,
                   m_continue, m_jobs_in_pipeline, m_process_count, arg, ret, cpc, ci,
                   inWaitEnd, fed, calls, started, finished>>
    /\ UNCHANGED notPipeline

\* FinalDecrement, had the final stage not counted the job down.
FinalDecrement_Forgotten(s) ==
    /\ wpc[s] = "final"
    /\ finished' = Append(finished, arg[s].id)
    /\ wpc' = [wpc EXCEPT ![s] = "final2"]
    /\ UNCHANGED <<m_waiting_list, m_waiting_list_access, m_passing_arguments, m_mutexes,
                   m_continue, m_jobs_in_pipeline, m_process_count, arg, ret, cpc, ci,
                   inWaitEnd, fed, calls, started>>
    /\ UNCHANGED notPipeline

\* Final stage: m_jobs_in_pipeline--;
FinalDecrement(s) ==
    /\ wpc[s] = "final"
    /\ m_jobs_in_pipeline' = m_jobs_in_pipeline - 1
    /\ finished' = Append(finished, arg[s].id)
    /\ wpc' = [wpc EXCEPT ![s] = "final2"]
    /\ UNCHANGED <<m_waiting_list, m_waiting_list_access, m_passing_arguments, m_mutexes,
                   m_continue, m_process_count, arg, ret, cpc, ci,
                   inWaitEnd, fed, calls, started>>
    /\ UNCHANGED notPipeline

\* Final stage: m_passing_arguments.at(process_id) = nullptr; lock.unlock();
\* m_end_cv.notify_all();
FinalClear(s) ==
    /\ wpc[s] = "final2"
    /\ m_passing_arguments' = [m_passing_arguments EXCEPT ![s] = Null]
    /\ m_mutexes' = [m_mutexes EXCEPT ![s] = "free"]
    /\ cpc' = IF cpc = "we_wait" THEN "we_check" ELSE cpc
    /\ wpc' = [wpc EXCEPT ![s] = "loop"]
    /\ UNCHANGED <<m_waiting_list, m_waiting_list_access,
                   m_continue, m_jobs_in_pipeline, m_process_count, arg, ret, ci,
                   inWaitEnd, fed, calls, started, finished>>
    /\ UNCHANGED notPipeline

\* --------------------------------------------------- feed (client thread)

\* Feed, had it forgotten to count the job.
Feed_NoCount ==
    /\ cpc = "idle"
    /\ fed < MaxFeed
    /\ fed' = fed + 1
    /\ cpc' = "feed"
    /\ UNCHANGED <<m_waiting_list, m_waiting_list_access, m_passing_arguments, m_mutexes,
                   m_continue, m_jobs_in_pipeline, m_process_count, wpc, arg, ret, ci,
                   inWaitEnd, calls, started, finished>>
    /\ UNCHANGED notPipeline

\* m_jobs_in_pipeline++;
Feed ==
    /\ cpc = "idle"
    /\ fed < MaxFeed
    /\ m_jobs_in_pipeline' = m_jobs_in_pipeline + 1
    /\ fed' = fed + 1
    /\ cpc' = "feed"
    /\ UNCHANGED <<m_waiting_list, m_waiting_list_access, m_passing_arguments, m_mutexes,
                   m_continue, m_process_count, wpc, arg, ret, ci,
                   inWaitEnd, calls, started, finished>>
    /\ UNCHANGED notPipeline

\* FeedPush, had it used push_front.
FeedPush_Front ==
    /\ cpc = "feed"
    /\ m_waiting_list_access = "free"
    /\ m_waiting_list' = <<[id |-> fed, hops |-> 0]>> \o m_waiting_list
    /\ wpc' = NotifyAll(wpc, 0)
    /\ cpc' = "idle"
    /\ UNCHANGED <<m_waiting_list_access, m_passing_arguments, m_mutexes,
                   m_continue, m_jobs_in_pipeline, m_process_count, arg, ret, ci,
                   inWaitEnd, fed, calls, started, finished>>
    /\ UNCHANGED notPipeline

\* std::lock_guard<std::mutex> lock_waiting_list(m_waiting_list_access);
\* m_waiting_list.push_back(first_element);
\* if (m_semaphores.size() > 0) m_semaphores.front()->notify_all();
FeedPush ==
    /\ cpc = "feed"
    /\ m_waiting_list_access = "free"
    /\ m_waiting_list' = Append(m_waiting_list, [id |-> fed, hops |-> 0])
    /\ wpc' = NotifyAll(wpc, 0)
    /\ cpc' = "idle"
    /\ UNCHANGED <<m_waiting_list_access, m_passing_arguments, m_mutexes,
                   m_continue, m_jobs_in_pipeline, m_process_count, arg, ret, ci,
                   inWaitEnd, fed, calls, started, finished>>
    /\ UNCHANGED notPipeline

\* --------------------------------------------------- stop (client thread)

\* m_continue = false;
Stop ==
    /\ cpc = "idle"
    /\ calls < MaxCalls
    /\ calls' = calls + 1
    /\ m_continue' = FALSE
    /\ inWaitEnd' = FALSE
    /\ ci' = 0
    /\ cpc' = "stop_notify"
    /\ UNCHANGED <<m_waiting_list, m_waiting_list_access, m_passing_arguments, m_mutexes,
                   m_jobs_in_pipeline, m_process_count, wpc, arg, ret,
                   fed, started, finished>>
    /\ UNCHANGED notPipeline

\* for (auto* s : m_semaphores) s->notify_all();     (one iteration)
StopNotify ==
    /\ cpc = "stop_notify"
    /\ wpc' = NotifyAll(wpc, ci)
    /\ IF ci + 1 < m_process_count
       THEN /\ ci' = ci + 1
            /\ cpc' = cpc
       ELSE /\ ci' = 0
            /\ cpc' = "stop_join"
    /\ UNCHANGED <<m_waiting_list, m_waiting_list_access, m_passing_arguments, m_mutexes,
                   m_continue, m_jobs_in_pipeline, m_process_count, arg, ret,
                   inWaitEnd, fed, calls, started, finished>>
    /\ UNCHANGED notPipeline

\* for (auto& t : m_threads) if (t.joinable()) t.join();     (one iteration)
StopJoin ==
    /\ cpc = "stop_join"
    /\ wpc[ci] \in {"done", "threw"}
    /\ IF ci + 1 < m_process_count
       THEN /\ ci' = ci + 1
            /\ cpc' = cpc
       ELSE /\ ci' = 0
            /\ cpc' = "stop_locks"
    /\ UNCHANGED <<m_waiting_list, m_waiting_list_access, m_passing_arguments, m_mutexes,
                   m_continue, m_jobs_in_pipeline, m_process_count, wpc, arg, ret,
                   inWaitEnd, fed, calls, started, finished>>
    /\ UNCHANGED notPipeline

\* for (auto* m : m_mutexes) { m->lock(); m->unlock(); }     (one iteration)
\* and, after the last one, the return of stop() to its caller.
StopLocks ==
    /\ cpc = "stop_locks"
    /\ m_mutexes[ci] = "free"
    /\ IF ci + 1 < m_process_count
       THEN /\ ci' = ci + 1
            /\ cpc' = cpc
       ELSE /\ ci' = 0
            /\ cpc' = IF inWaitEnd THEN "we_ret" ELSE "stop_ret"
    /\ UNCHANGED <<m_waiting_list, m_waiting_list_access, m_passing_arguments, m_mutexes,
                   m_continue, m_jobs_in_pipeline, m_process_count, wpc, arg, ret,
                   inWaitEnd, fed, calls, started, finished>>
    /\ UNCHANGED notPipeline

\* ------------------------------------------------ wait_end (client thread)

\* std::mutex mtx; std::unique_lock<std::mutex> lock(mtx);
WaitEnd ==
    /\ cpc = "idle"
    /\ calls < MaxCalls
    /\ calls' = calls + 1
    /\ cpc' = "we_check"
    /\ UNCHANGED <<m_waiting_list, m_waiting_list_access, m_passing_arguments, m_mutexes,
                   m_continue, m_jobs_in_pipeline, m_process_count, wpc, arg, ret, ci,
                   inWaitEnd, fed, started, finished>>
    /\ UNCHANGED notPipeline

\* WaitEndCheck, had it tested the waiting list instead of the in-flight counter.
WaitEndCheck_OnWaitingList ==
    /\ cpc = "we_check"
    /\ IF Len(m_waiting_list) # 0
       THEN /\ cpc' = "we_enter"
            /\ UNCHANGED <<m_continue, inWaitEnd, ci>>
       ELSE /\ m_continue' = FALSE
            /\ inWaitEnd' = TRUE
            /\ ci' = 0
            /\ cpc' = "stop_notify"
    /\ UNCHANGED <<m_waiting_list, m_waiting_list_access, m_passing_arguments, m_mutexes,
                   m_jobs_in_pipeline, m_process_count, wpc, arg, ret,
                   fed, calls, started, finished>>
    /\ UNCHANGED notPipeline

\* while (m_jobs_in_pipeline != 0) ...;  stop();   (stop's first statement included)
WaitEndCheck ==
    /\ cpc = "we_check"
    /\ IF m_jobs_in_pipeline # 0
       THEN /\ cpc' = "we_enter"
            /\ UNCHANGED <<m_continue, inWaitEnd, ci>>
       ELSE /\ m_continue' = FALSE
            /\ inWaitEnd' = TRUE
            /\ ci' = 0
            /\ cpc' = "stop_notify"
    /\ UNCHANGED <<m_waiting_list, m_waiting_list_access, m_passing_arguments, m_mutexes,
                   m_jobs_in_pipeline, m_process_count, wpc, arg, ret,
                   fed, calls, started, finished>>
    /\ UNCHANGED notPipeline

\* m_end_cv.wait(lock): the caller blocks on the end condition variable.
WaitEndBlock ==
    /\ cpc = "we_enter"
    /\ cpc' = "we_wait"
    /\ UNCHANGED <<m_waiting_list, m_waiting_list_access, m_passing_arguments, m_mutexes,
                   m_continue, m_jobs_in_pipeline, m_process_count, wpc, arg, ret, ci,
                   inWaitEnd, fed, calls, started, finished>>
    /\ UNCHANGED notPipeline

\* m_end_cv.wait(lock) may return without a notification.
WaitEndSpuriousWakeup ==
    /\ cpc = "we_wait"
    /\ cpc' = "we_check"
    /\ UNCHANGED <<m_waiting_list, m_waiting_list_access, m_passing_arguments, m_mutexes,
                   m_continue, m_jobs_in_pipeline, m_process_count, wpc, arg, ret, ci,
                   inWaitEnd, fed, calls, started, finished>>
    /\ UNCHANGED notPipeline

\* stop() or wait_end() has returned to the client.
Return ==
    /\ cpc \in {"stop_ret", "we_ret"}
    /\ cpc' = "idle"
    /\ UNCHANGED <<m_waiting_list, m_waiting_list_access, m_passing_arguments, m_mutexes,
                   m_continue, m_jobs_in_pipeline, m_process_count, wpc, arg, ret, ci,
                   inWaitEnd, fed, calls, started, finished>>
    /\ UNCHANGED notPipeline

\* The pipeline before any add_process: no stage, no worker, nothing fed.
PipelineUnused ==
    /\ m_process_count = 0
    /\ m_waiting_list = <<>>
    /\ m_waiting_list_access = "free"
    /\ m_passing_arguments = <<>>
    /\ m_mutexes = <<>>
    /\ m_continue = TRUE
    /\ m_jobs_in_pipeline = 0
    /\ wpc = <<>>
    /\ arg = <<>>
    /\ ret = <<>>
    /\ cpc = "idle"
    /\ ci = 0
    /\ inWaitEnd = FALSE
    /\ fed = 0
    /\ calls = 0
    /\ started = <<>>
    /\ finished = <<>>

\* ------------------------------------------------------ pipeline: next state

PNext ==
    \/ \E s \in Stages : WhileContinue(s)
    \/ \E s \in Stages : LockOwn(s)
    \/ \E s \in Stages : Pred(s)
    \/ \E s \in Stages : Pred0(s)
    \/ \E s \in Stages : Pred0Continue(s)
    \/ \E s \in Stages : CvWait(s)
    \/ \E s \in Stages : SpuriousWakeup(s)
    \/ \E s \in Stages : CvRelock(s)
    \/ \E s \in Stages : TakeArgument(s)
    \/ \E s \in Stages : Transform(s)
    \/ \E s \in Stages : HandoffLock(s)
    \/ \E s \in Stages : HandoffUnlock(s)
    \/ \E s \in Stages : FinalDecrement(s)
    \/ \E s \in Stages : FinalClear(s)
    \/ Feed
    \/ FeedPush
    \/ Stop
    \/ StopNotify
    \/ StopJoin
    \/ StopLocks
    \/ WaitEnd
    \/ WaitEndCheck
    \/ WaitEndBlock
    \/ WaitEndSpuriousWakeup
    \/ Return

\* ============================================================= worker pool

\* The threads of the pool, by number: thread t is the t-th one spawned.
\* The submitting thread (the caller of new_work and wait_for_join) is thread 0.
PoolThreads == 1 .. MaxTasks
Works == 1 .. MaxTasks

\* The pool before the first new_work; max_threads is what
\* std::thread::hardware_concurrency() returned (0 when it is not computable).
WInit ==
    /\ max_threads \in 0 .. MaxHardwareThreads
    /\ m_active_threads = 0
    /\ wt_waiting_list = <<>>
    /\ m_mutex = {}
    /\ m_workers = <<>>
    /\ wtpc = [t \in PoolThreads |-> "none"]
    /\ wtwork = [t \in PoolThreads |-> 0]
    /\ mpc = "idle"
    /\ joining = 0
    /\ joined = {}
    /\ terminated = FALSE
    /\ submitted = 0
    /\ ran = [w \in Works |-> 0]
    /\ raised = {}
    /\ joinSubmitted = 0
    /\ joinSpawned = {}

\* The number of the next thread to spawn.
NextThread == CHOOSE t \in PoolThreads : wtpc[t] = "none" /\ \A u \in 1 .. (t - 1) : wtpc[u] # "none"

\* The callers of new_work: the submitting thread, or a pool thread from inside
\* the work it is running.
Callers == 0 .. MaxTasks

\* new_work: m_mutex.lock();
NewWorkLock(c) ==
    /\ ~terminated
    /\ submitted < MaxTasks
    /\ m_mutex = {}
    /\ m_mutex' = {c}
    /\ submitted' = submitted + 1
    /\ IF c = 0
       THEN /\ mpc = "idle"
            /\ mpc' = "new_work"
            /\ UNCHANGED wtpc
       ELSE /\ wtpc[c] \in {"first", "run"}
            /\ wtpc' = [wtpc EXCEPT ![c] = IF @ = "first" THEN "first_new_work" ELSE "run_new_work"]
            /\ UNCHANGED mpc
    /\ UNCHANGED <<max_threads, m_active_threads, wt_waiting_list, m_workers, wtwork, ran>>
    /\ UNCHANGED wjoin
    /\ UNCHANGED notPool

\* The caller c of new_work is inside it, and where it is once new_work has returned.
InNewWork(c) ==
    IF c = 0 THEN mpc = "new_work" ELSE wtpc[c] \in {"first_new_work", "run_new_work"}
AfterNewWork(pcs, c) ==
    IF c = 0 THEN pcs
    ELSE [pcs EXCEPT ![c] = IF @ = "first_new_work" THEN "first" ELSE "run"]

\* NewWork, had it compared with > instead of >=.
NewWork_OffByOne(c) ==
    /\ ~terminated
    /\ InNewWork(c)
    /\ IF m_active_threads > max_threads
       THEN /\ wt_waiting_list' = Append(wt_waiting_list, submitted)
            /\ wtpc' = AfterNewWork(wtpc, c)
            /\ UNCHANGED <<m_active_threads, m_workers, wtwork>>
       ELSE /\ m_active_threads' = m_active_threads + 1
            /\ m_workers' = Append(m_workers, NextThread)
            /\ wtpc' = [AfterNewWork(wtpc, c) EXCEPT ![NextThread] = "first"]
            /\ wtwork' = [wtwork EXCEPT ![NextThread] = submitted]
            /\ UNCHANGED wt_waiting_list
    /\ m_mutex' = {}
    /\ mpc' = IF c = 0 THEN "idle" ELSE mpc
    /\ UNCHANGED <<max_threads, submitted, ran>>
    /\ UNCHANGED wjoin
    /\ UNCHANGED notPool

\* new_work: if (m_active_threads >= max_threads) m_waiting_list.push_back(work);
\* else { m_active_threads++; m_workers.push_back(std::thread(worker, work)); }
\* m_mutex.unlock();
NewWork(c) ==
    /\ ~terminated
    /\ InNewWork(c)
    /\ IF m_active_threads >= max_threads
       THEN /\ wt_waiting_list' = Append(wt_waiting_list, submitted)
            /\ wtpc' = AfterNewWork(wtpc, c)
            /\ UNCHANGED <<m_active_threads, m_workers, wtwork>>
       ELSE /\ m_active_threads' = m_active_threads + 1
            /\ m_workers' = Append(m_workers, NextThread)
            /\ wtpc' = [AfterNewWork(wtpc, c) EXCEPT ![NextThread] = "first"]
            /\ wtwork' = [wtwork EXCEPT ![NextThread] = submitted]
            /\ UNCHANGED wt_waiting_list
    /\ m_mutex' = {}
    /\ mpc' = IF c = 0 THEN "idle" ELSE mpc
    /\ UNCHANGED <<max_threads, submitted, ran>>
    /\ UNCHANGED wjoin
    /\ UNCHANGED notPool

\* worker: first_work->run();   and, in the loop, work->run(); work.reset();
\* The work's callable returns.
RunWork(t) ==
    /\ ~terminated
    /\ wtpc[t] \in {"first", "run"}
    /\ ran' = [ran EXCEPT ![wtwork[t]] = @ + 1]
    /\ wtwork' = [wtwork EXCEPT ![t] = 0]
    /\ wtpc' = [wtpc EXCEPT ![t] = "lock"]
    /\ UNCHANGED <<max_threads, m_active_threads, wt_waiting_list, m_mutex, m_workers,
                   mpc, submitted>>
    /\ UNCHANGED wjoin
    /\ UNCHANGED notPool

\* worker: first_work->run();   and, in the loop, work->run();
\* The work's callable throws. Neither work::run nor worker has a handler, so
\* the exception leaves the thread's function and std::terminate ends the process.
RunWorkRaises(t) ==
    /\ ~terminated
    /\ wtpc[t] \in {"first", "run"}
    /\ ran' = [ran EXCEPT ![wtwork[t]] = @ + 1]
    /\ raised' = raised \cup {wtwork[t]}
    /\ wtpc' = [wtpc EXCEPT ![t] = "threw"]
    /\ terminated' = TRUE
    /\ UNCHANGED <<max_threads, m_active_threads, wt_waiting_list, m_mutex, m_workers,
                   wtwork, mpc, submitted, joining, joined, joinSubmitted, joinSpawned>>
    /\ UNCHANGED notPool

\* worker: m_mutex.lock();   (before the loop, and at the end of its body)
WorkerLock(t) ==
    /\ ~terminated
    /\ wtpc[t] = "lock"
    /\ m_mutex = {}
    /\ m_mutex' = {t}
    /\ wtpc' = [wtpc EXCEPT ![t] = "locked"]
    /\ UNCHANGED <<max_threads, m_active_threads, wt_waiting_list, m_workers, wtwork,
                   mpc, submitted, ran>>
    /\ UNCHANGED wjoin
    /\ UNCHANGED notPool

\* WorkerNext, had the worker kept m_mutex while it runs the work it took.
WorkerNext_KeepsLock(t) ==
    /\ ~terminated
    /\ wtpc[t] = "locked"
    /\ IF Len(wt_waiting_list) > 0
       THEN /\ wtwork' = [wtwork EXCEPT ![t] = Head(wt_waiting_list)]
            /\ wt_waiting_list' = Tail(wt_waiting_list)
            /\ wtpc' = [wtpc EXCEPT ![t] = "run"]
            /\ UNCHANGED <<m_active_threads, m_mutex>>
       ELSE /\ m_active_threads' = m_active_threads - 1
            /\ wtpc' = [wtpc EXCEPT ![t] = "done"]
            /\ m_mutex' = {}
            /\ UNCHANGED <<wtwork, wt_waiting_list>>
    /\ UNCHANGED <<max_threads, m_workers, mpc, submitted, ran>>
    /\ UNCHANGED wjoin
    /\ UNCHANGED notPool

\* WorkerNext, had the worker left after its first work without draining the backlog.
WorkerNext_NoDrain(t) ==
    /\ ~terminated
    /\ wtpc[t] = "locked"
    /\ m_active_threads' = m_active_threads - 1
    /\ wtpc' = [wtpc EXCEPT ![t] = "done"]
    /\ m_mutex' = {}
    /\ UNCHANGED <<max_threads, wt_waiting_list, m_workers, wtwork, mpc, submitted, ran>>
    /\ UNCHANGED wjoin
    /\ UNCHANGED notPool

\* worker: while (m_waiting_list.size() > 0)
\*   { work = front(); pop_front(); m_mutex.unlock(); ... }
\* m_active_threads--; m_mutex.unlock();
WorkerNext(t) ==
    /\ ~terminated
    /\ wtpc[t] = "locked"
    /\ IF Len(wt_waiting_list) > 0
       THEN /\ wtwork' = [wtwork EXCEPT ![t] = Head(wt_waiting_list)]
            /\ wt_waiting_list' = Tail(wt_waiting_list)
            /\ wtpc' = [wtpc EXCEPT ![t] = "run"]
            /\ UNCHANGED m_active_threads
       ELSE /\ m_active_threads' = m_active_threads - 1
            /\ wtpc' = [wtpc EXCEPT ![t] = "done"]
            /\ UNCHANGED <<wtwork, wt_waiting_list>>
    /\ m_mutex' = {}
    /\ UNCHANGED <<max_threads, m_workers, mpc, submitted, ran>>
    /\ UNCHANGED wjoin
    /\ UNCHANGED notPool

\* wait_for_join is called.
WaitForJoin ==
    /\ ~terminated
    /\ mpc = "idle"
    /\ mpc' = "join"
    /\ joinSubmitted' = submitted
    /\ joinSpawned' = {t \in PoolThreads : wtpc[t] # "none"}
    /\ UNCHANGED <<max_threads, m_active_threads, wt_waiting_list, m_mutex, m_workers,
                   wtpc, wtwork, submitted, ran, raised, joining, joined, terminated>>
    /\ UNCHANGED notPool

\* wait_for_join: while (m_workers.size() != 0) { m_workers.back().join();
\* The caller now blocks in join() on the thread that is last in the list; with
\* an empty list wait_for_join returns.
JoinBack ==
    /\ ~terminated
    /\ mpc = "join"
    /\ IF Len(m_workers) # 0
       THEN /\ joining' = m_workers[Len(m_workers)]
            /\ mpc' = "joining"
       ELSE /\ mpc' = "idle"
            /\ UNCHANGED joining
    /\ UNCHANGED <<max_threads, m_active_threads, wt_waiting_list, m_mutex, m_workers,
                   wtpc, wtwork, submitted, ran, raised, joined, terminated, joinSubmitted, joinSpawned>>
    /\ UNCHANGED notPool

\* std::thread::join returns: the joined thread has left worker().
JoinReturn ==
    /\ ~terminated
    /\ mpc = "joining"
    /\ wtpc[joining] = "done"
    /\ joined' = joined \cup {joining}
    /\ joining' = 0
    /\ mpc' = "pop"
    /\ UNCHANGED <<max_threads, m_active_threads, wt_waiting_list, m_mutex, m_workers,
                   wtpc, wtwork, submitted, ran, raised, terminated, joinSubmitted, joinSpawned>>
    /\ UNCHANGED notPool

\* wait_for_join: m_workers.pop_back(); }
\* The std::thread that is last in the list now is destroyed; ~thread calls
\* std::terminate when that thread was not joined.
PopBack ==
    /\ ~terminated
    /\ mpc = "pop"
    /\ m_workers' = SubSeq(m_workers, 1, Len(m_workers) - 1)
    /\ terminated' = (m_workers[Len(m_workers)] \notin joined)
    /\ mpc' = "join"
    /\ UNCHANGED <<max_threads, m_active_threads, wt_waiting_list, m_mutex,
                   wtpc, wtwork, submitted, ran, raised, joining, joined, joinSubmitted, joinSpawned>>
    /\ UNCHANGED notPool

\* The pool never used: no thread, no work.
PoolUnused ==
    /\ max_threads = 0
    /\ m_active_threads = 0
    /\ wt_waiting_list = <<>>
    /\ m_mutex = {}
    /\ m_workers = <<>>
    /\ wtpc = [t \in PoolThreads |-> "none"]
    /\ wtwork = [t \in PoolThreads |-> 0]
    /\ mpc = "idle"
    /\ joining = 0
    /\ joined = {}
    /\ terminated = FALSE
    /\ submitted = 0
    /\ ran = [w \in Works |-> 0]
    /\ raised = {}
    /\ joinSubmitted = 0
    /\ joinSpawned = {}

WNext ==
    \/ \E c \in Callers : NewWorkLock(c)
    \/ \E c \in Callers : NewWork(c)
    \/ \E t \in PoolThreads : RunWork(t)
    \/ \E t \in PoolThreads : RunWorkRaises(t)
    \/ \E t \in PoolThreads : WorkerLock(t)
    \/ \E t \in PoolThreads : WorkerNext(t)
    \/ WaitForJoin
    \/ JoinBack
    \/ JoinReturn
    \/ PopBack

\* ===================================================================== map

\* nullptr, the addresses of the heap (an insert allocates at most one node),
\* and the keys of the calls.
Nil == 0
NodeIds == 1 .. MaxOps
Keys == 1 .. MaxKey

\* Recursion depth after which a walk down the links has met a node twice:
\* the recursion of the code never ends (stack overflow, or an endless loop).
Fuel == MaxOps + 1

\* `short diff = height(l) - height(r)`: the difference of two epstl::size_t
\* (modulo 2^32, a multiple of 2^16) keeps its low 16 bits as a signed value.
\* m_size itself is kept as the signed residue of its value modulo 2^32:
\* -1 stands for 2^32 - 1, what m_size-- makes of 0.
ShortModulus == 65536
ShortDiff(a, b) ==
    LET d == (a - b) % ShortModulus
    IN  IF d >= ShortModulus \div 2 THEN d - ShortModulus ELSE d

\* A node never allocated (node_t's default member initialisers), and a node
\* fresh from `new node_t` with its content and parent set.
NoNode == [left |-> Nil, right |-> Nil, parent |-> Nil, key |-> 0, item |-> 0, state |-> "unused"]
NewNode(k, v, p) == [left |-> Nil, right |-> Nil, parent |-> p, key |-> k, item |-> v, state |-> "live"]

\* The running state of one call: the heap h, m_root, m_size and what went wrong
\* so far: "ok"; "uaf": a freed node was read or written (undefined behaviour,
\* the contents it had when freed are what the model then reads); "crash": a
\* null pointer was dereferenced or a recursion did not end.
Start == [h |-> nodes, root |-> m_root, size |-> m_size, bad |-> "ok"]
Crash(st) == [st EXCEPT !.bad = "crash"]

\* The call dereferences node n.
Touch(st, n) ==
    IF st.bad = "crash" THEN st
    ELSE IF n = Nil THEN Crash(st)
    ELSE IF st.h[n].state # "live" THEN [st EXCEPT !.bad = "uaf"]
    ELSE st

\* n->f = v;
Set(st, n, f, v) ==
    LET t == Touch(st, n)
    IN  IF t.bad = "crash" THEN t ELSE [t EXCEPT !.h[n][f] = v]

\* v named for the rest F of a computation (a local variable of the code).
Let(v, F(_)) == F(v)

\* height(root): the height, whether the recursion did not end, and whether a
\* freed node was read.
HgtNode(h, n, l, r) ==
    [ht  |-> (IF l.ht > r.ht THEN l.ht ELSE r.ht) + 1,
     ovf |-> l.ovf \/ r.ovf,
     uaf |-> l.uaf \/ r.uaf \/ h[n].state # "live"]

RECURSIVE Hgt(_, _, _)
Hgt(h, n, fuel) ==
    IF n = Nil THEN [ht |-> 0, ovf |-> FALSE, uaf |-> FALSE]
    ELSE IF fuel = 0 THEN [ht |-> 0, ovf |-> TRUE, uaf |-> FALSE]
    ELSE HgtNode(h, n, Hgt(h, h[n].left, fuel - 1), Hgt(h, h[n].right, fuel - 1))

\* height(a) - height(b) as the code computes it in st: the state after the
\* two calls of height, and the difference.
HeightDiffOf(st, l, r) ==
    [st   |-> IF st.bad = "crash" \/ l.ovf \/ r.ovf THEN Crash(st)
              ELSE IF l.uaf \/ r.uaf THEN [st EXCEPT !.bad = "uaf"]
              ELSE st,
     diff |-> ShortDiff(l.ht, r.ht)]
HeightDiff(st, a, b) == HeightDiffOf(st, Hgt(st.h, a, Fuel), Hgt(st.h, b, Fuel))

\* left_rotate / right_rotate, from `node_t* node_parent = node->parent;` on:
\* the parent of node (or m_root) now designates pivot, and the two parent links.
RotateRelink(s3, node, pivot) ==
    Let(s3.h[node].parent, LAMBDA node_parent :
    Let(IF node_parent # Nil
        THEN IF s3.h[node_parent].left = node
             THEN Set(s3, node_parent, "left", pivot)
             ELSE Set(s3, node_parent, "right", pivot)
        ELSE [s3 EXCEPT !.root = pivot], LAMBDA s4 :
    Set(Set(s4, node, "parent", pivot), pivot, "parent", node_parent)))

\* left_rotate(node)
left_rotate(st, node) ==
    IF st.bad = "crash" \/ node = Nil THEN st
    ELSE Let(Touch(st, node), LAMBDA s0 :
         IF s0.h[node].right = Nil THEN s0
         ELSE Let(s0.h[node].right, LAMBDA pivot :
              Let(Set(Touch(s0, pivot), node, "right", s0.h[pivot].left), LAMBDA s1 :
              Let(IF s1.h[node].right # Nil
                  THEN Set(s1, s1.h[node].right, "parent", node)
                  ELSE s1, LAMBDA s2 :
              RotateRelink(Set(s2, pivot, "left", node), node, pivot)))))

\* right_rotate(node)
right_rotate(st, node) ==
    IF st.bad = "crash" \/ node = Nil THEN st
    ELSE Let(Touch(st, node), LAMBDA s0 :
         IF s0.h[node].left = Nil THEN s0
         ELSE Let(s0.h[node].left, LAMBDA pivot :
              Let(Set(Touch(s0, pivot), node, "left", s0.h[pivot].right), LAMBDA s1 :
              Let(IF s1.h[node].left # Nil
                  THEN Set(s1, s1.h[node].left, "parent", node)
                  ELSE s1, LAMBDA s2 :
              RotateRelink(Set(s2, pivot, "right", node), node, pivot)))))

\* balance_node, insert: if (diff < -1) left_rotate(node); else if (diff > 1)
\* right_rotate(node);    for d the difference of heights computed at node.
RotateBy(d, node) ==
    IF d.st.bad = "crash" THEN d.st
    ELSE IF d.diff < -1 THEN left_rotate(d.st, node)
    ELSE IF d.diff > 1 THEN right_rotate(d.st, node)
    ELSE d.st

\* balance_node(node): one rotation when a branch is heavier by more than one.
balance_node(st, node) ==
    IF st.bad = "crash" \/ node = Nil THEN st
    ELSE Let(Touch(st, node), LAMBDA s0 :
         RotateBy(HeightDiff(s0, s0.h[node].left, s0.h[node].right), node))

\* min_node(node), max_node(node): the node found, in the state after the walk.
RECURSIVE min_node(_, _, _)
min_node(st, node, fuel) ==
    Let(Touch(st, node), LAMBDA s0 :
    IF s0.bad = "crash" THEN [st |-> s0, n |-> node]
    ELSE IF fuel = 0 THEN [st |-> Crash(s0), n |-> node]
    ELSE IF s0.h[node].left # Nil THEN min_node(s0, s0.h[node].left, fuel - 1)
    ELSE [st |-> s0, n |-> node])

RECURSIVE max_node(_, _, _)
max_node(st, node, fuel) ==
    Let(Touch(st, node), LAMBDA s0 :
    IF s0.bad = "crash" THEN [st |-> s0, n |-> node]
    ELSE IF fuel = 0 THEN [st |-> Crash(s0), n |-> node]
    ELSE IF s0.h[node].right # Nil THEN max_node(s0, s0.h[node].right, fuel - 1)
    ELSE [st |-> s0, n |-> node])

\* iterator_t::operator++ on an iterator at node n: the node it designates
\* next (Nil is what end() and rend() hold), in the state after the step.
Increment(st, n, it_type) ==
    Let(Touch(st, n), LAMBDA s0 :
    IF s0.bad = "crash" THEN [st |-> s0, n |-> Nil]
    ELSE IF it_type = "KEY_ORDER"
    THEN IF /\ s0.h[n].right = Nil
            /\ s0.h[n].parent # Nil
            /\ n = s0.h[s0.h[n].parent].left
         THEN [st |-> Touch(s0, s0.h[n].parent), n |-> s0.h[n].parent]
         ELSE IF s0.h[n].right # Nil THEN min_node(s0, s0.h[n].right, Fuel)
         ELSE [st |-> s0, n |-> Nil]
    ELSE IF /\ s0.h[n].left = Nil
            /\ s0.h[n].parent # Nil
            /\ n = s0.h[s0.h[n].parent].right
         THEN [st |-> Touch(s0, s0.h[n].parent), n |-> s0.h[n].parent]
         ELSE IF s0.h[n].left # Nil THEN max_node(s0, s0.h[n].left, Fuel)
         ELSE [st |-> s0, n |-> Nil])

\* begin() and rbegin().
Begin(it_type) ==
    IF it_type = "KEY_ORDER" THEN min_node(Start, m_root, Fuel)
    ELSE max_node(Start, m_root, Fuel)

\* for (it = begin(); it != end(); ++it) visit(it->first): the keys visited in
\* order, and whether the loop ended without fault.
RECURSIVE Visit(_, _, _)
Visit(it, it_type, fuel) ==
    IF it.st.bad = "crash" THEN [keys |-> << >>, ok |-> FALSE]
    ELSE IF it.n = Nil THEN [keys |-> << >>, ok |-> it.st.bad = "ok"]
    ELSE IF fuel = 0 THEN [keys |-> << >>, ok |-> FALSE]
    ELSE Let(Visit(Increment(it.st, it.n, it_type), it_type, fuel - 1), LAMBDA r :
         [keys |-> <<it.st.h[it.n].key>> \o r.keys, ok |-> r.ok])

Iterate(it_type) == Visit(Begin(it_type), it_type, Fuel)

\* insert_recursive, its two `new node_t` branches: the node allocated at
\* address a becomes the child f of current_node; m_size++.
Attach(st, current_node, f, key, item, a) ==
    Let(Set([st EXCEPT !.h[a] = NewNode(key, item, current_node)], current_node, f, a),
        LAMBDA s1 : [s1 EXCEPT !.size = @ + 1])

\* insert_recursive, after the recursive call returned r on the child `next`.
InsertedBelow(r, next) ==
    IF r.ret THEN [st |-> balance_node(r.st, next), ret |-> TRUE] ELSE r

\* insert_recursive(current_node, key, item), `new` returning address a.
RECURSIVE insert_recursive(_, _, _, _, _, _)
insert_recursive(st, current_node, key, item, a, fuel) ==
    Let(Touch(st, current_node), LAMBDA s0 :
    IF s0.bad = "crash" THEN [st |-> s0, ret |-> FALSE]
    ELSE IF fuel = 0 THEN [st |-> Crash(s0), ret |-> FALSE]
    ELSE IF s0.h[current_node].key = key THEN [st |-> s0, ret |-> FALSE]
    ELSE Let(IF key < s0.h[current_node].key THEN "left" ELSE "right", LAMBDA f :
         Let(s0.h[current_node][f], LAMBDA next :
         IF next = Nil
         THEN [st |-> Attach(s0, current_node, f, key, item, a), ret |-> TRUE]
         ELSE InsertedBelow(insert_recursive(s0, next, key, item, a, fuel - 1), next))))

\* insert, "Equilibrate the tree": the rotation of m_root after insert_recursive
\* returned r.
InsertedAtRoot(r) ==
    IF ~r.ret THEN r
    ELSE Let(Touch(r.st, r.st.root), LAMBDA s0 :
         [st  |-> RotateBy(HeightDiff(s0, s0.h[s0.root].left, s0.h[s0.root].right), s0.root),
          ret |-> TRUE])

\* insert(key, item), `new` returning address a.
insert(key, item, a) ==
    IF m_root = Nil
    THEN [st  |-> [Start EXCEPT !.h[a] = NewNode(key, item, Nil), !.root = a, !.size = @ + 1],
          ret |-> TRUE]
    ELSE InsertedAtRoot(insert_recursive(Start, m_root, key, item, a, Fuel))

\* erase_recursive, "Set parent -> child link": the parent p of current_node
\* gets `child` where it had current_node (p is dereferenced unchecked).
ReplaceIn(s0, p, current_node, child) ==
    IF s0.bad = "crash" THEN s0
    ELSE IF s0.h[p].left = current_node THEN Set(s0, p, "left", child)
    ELSE IF s0.h[p].right = current_node THEN Set(s0, p, "right", child)
    ELSE s0
ReplaceInParent(st, current_node, child) ==
    ReplaceIn(Touch(st, st.h[current_node].parent), st.h[current_node].parent,
              current_node, child)

\* erase_recursive, "Set child -> parent link" for the only child, field f.
ChildToParent(s0, current_node, f) ==
    IF s0.h[current_node][f] # Nil
    THEN Set(s0, s0.h[current_node][f], "parent", s0.h[current_node].parent)
    ELSE s0

\* erase_recursive, the branch of a node with one child, which is its field f.
EraseOneChild(st, current_node, f) ==
    ChildToParent(ReplaceInParent(st, current_node, st.h[current_node][f]), current_node, f)

\* erase_recursive, the branch "Left and right node", from the assignment of
\* min->right_node (or of the right_node of its largest descendant) on.
TransplantRight(a3, current_node, min) ==
    Let(IF a3.h[min].right # Nil
        THEN Let(max_node(a3, a3.h[min].right, Fuel), LAMBDA mx :
                 Set(mx.st, mx.n, "right", mx.st.h[current_node].right))
        ELSE Set(a3, min, "right", a3.h[current_node].right), LAMBDA a4 :
    IF a4.bad = "crash" THEN a4 ELSE ReplaceInParent(a4, current_node, min))

\* erase_recursive, the branch "Left and right node", min being
\* min_node(current_node->right_node) found in state a0.
Transplant(a0, current_node, min) ==
    Let(IF a0.h[min].parent # Nil THEN Set(a0, a0.h[min].parent, "left", Nil) ELSE a0,
        LAMBDA a1 :
    Let(Set(a1, min, "parent", a1.h[current_node].parent), LAMBDA a2 :
    Let(Set(a2, min, "left", a2.h[current_node].left), LAMBDA a3 :
    TransplantRight(a3, current_node, min))))

EraseTwoChildren(st, current_node) ==
    Let(min_node(st, st.h[current_node].right, Fuel), LAMBDA m :
    Transplant(m.st, current_node, m.n))

\* erase_recursive: delete current_node; m_size--;
Delete(s0, current_node) ==
    IF s0.bad = "crash" THEN s0
    ELSE [s0 EXCEPT !.h[current_node].state = "freed", !.size = @ - 1]

\* erase_recursive, the branch current_node->content.first == key.
EraseHere(st, current_node) ==
    Let(st.h[current_node], LAMBDA n :
    Delete(IF n.left # Nil \/ n.right # Nil
           THEN IF n.left = Nil THEN EraseOneChild(st, current_node, "right")
                ELSE IF n.right = Nil THEN EraseOneChild(st, current_node, "left")
                ELSE EraseTwoChildren(st, current_node)
           ELSE IF n.parent # Nil THEN ReplaceInParent(st, current_node, Nil)
           ELSE st,
           current_node))

\* erase_recursive: what it returns when the subtree call returned r.
ErasedBelow(r, current_node) ==
    IF r.st.bad = "crash" THEN r
    ELSE IF r.ret THEN [st |-> balance_node(r.st, current_node), ret |-> TRUE]
    ELSE r

\* erase_recursive(current_node, key)
RECURSIVE erase_recursive(_, _, _, _)
erase_recursive(st, current_node, key, fuel) ==
    IF st.bad = "crash" \/ current_node = Nil THEN [st |-> st, ret |-> FALSE]
    ELSE IF fuel = 0 THEN [st |-> Crash(st), ret |-> FALSE]
    ELSE Let(Touch(st, current_node), LAMBDA s0 :
         IF s0.h[current_node].key = key
         THEN Let(EraseHere(s0, current_node), LAMBDA e : [st |-> e, ret |-> e.bad # "crash"])
         ELSE Let(erase_recursive(s0, s0.h[current_node].left, key, fuel - 1), LAMBDA l :
              IF l.st.bad = "crash" \/ l.ret THEN ErasedBelow(l, current_node)
              ELSE ErasedBelow(erase_recursive(l.st, l.st.h[current_node].right, key, fuel - 1),
                               current_node)))

\* erase(key): the state after it, and the size it returns.
Erased(r) ==
    Let(IF r.ret THEN balance_node(r.st, r.st.root) ELSE r.st, LAMBDA s0 :
        [st |-> s0, ret |-> s0.size])
erase(key) == Erased(erase_recursive(Start, m_root, key, Fuel))

\* search(key): the node found (Nil: none) and what went wrong on the way.
RECURSIVE search(_, _, _, _)
search(st, current_node, key, fuel) ==
    IF current_node = Nil THEN [st |-> st, n |-> Nil]
    ELSE IF fuel = 0 THEN [st |-> Crash(st), n |-> Nil]
    ELSE Let(Touch(st, current_node), LAMBDA s0 :
         IF s0.h[current_node].key = key THEN [st |-> s0, n |-> current_node]
         ELSE IF key < s0.h[current_node].key
         THEN search(s0, s0.h[current_node].left, key, fuel - 1)
         ELSE search(s0, s0.h[current_node].right, key, fuel - 1))

\* The map just constructed.
MInit ==
    /\ nodes = [n \in {Nil} \cup NodeIds |-> NoNode]
    /\ m_root = Nil
    /\ m_size = 0
    /\ mfault = FALSE
    /\ nops = 0
    /\ lastOp = "none"
    /\ lastKey = 0
    /\ lastItem = 0
    /\ lastRet = 0
    /\ ref = [k \in Keys |-> 0]

\* The addresses `new node_t` can return: a freed one, or the next fresh one.
AllocIds ==
    {n \in NodeIds : nodes[n].state = "freed"}
        \cup {n \in NodeIds : nodes[n].state = "unused"
                              /\ \A u \in 1 .. (n - 1) : nodes[u].state # "unused"}

\* How a call ends: it returns, leaving the state r.st and the result r.ret; or, when
\* it dereferenced a null pointer or recursed without end, it never returns; when
\* it used a freed node its behaviour is undefined, and it does either.
Ends(r, newRef) ==
    \/ /\ r.st.bad # "crash"
       /\ nodes' = r.st.h
       /\ m_root' = r.st.root
       /\ m_size' = r.st.size
       /\ mfault' = FALSE
       /\ lastRet' = r.ret
       /\ ref' = newRef
    \/ /\ r.st.bad # "ok"
       /\ mfault' = TRUE
       /\ UNCHANGED <<nodes, m_root, m_size, lastRet, ref>>

\* The item of the k-th call is k: the code only stores the items, and no two
\* calls give the same one, so a stored item tells which insert stored it.
NextItem == nops + 1

\* bool insert(key_t key, item_t item)
MapInsert ==
    /\ ~mfault
    /\ nops < MaxOps
    /\ \E key \in Keys, a \in AllocIds :
          /\ nops' = nops + 1
          /\ lastOp' = "insert"
          /\ lastKey' = key
          /\ lastItem' = NextItem
          /\ Ends(insert(key, NextItem, a),
                  IF ref[key] = 0 THEN [ref EXCEPT ![key] = NextItem] ELSE ref)
    /\ UNCHANGED notMap

\* size_t erase(const key_t& key)
MapErase ==
    /\ ~mfault
    /\ nops < MaxOps
    /\ \E key \in Keys :
          /\ nops' = nops + 1
          /\ lastOp' = "erase"
          /\ lastKey' = key
          /\ lastItem' = 0
          /\ Ends(erase(key), [ref EXCEPT ![key] = 0])
    /\ UNCHANGED notMap

\* The map never used.
MapUnused ==
    /\ nodes = [n \in {Nil} \cup NodeIds |-> NoNode]
    /\ m_root = Nil
    /\ m_size = 0
    /\ mfault = FALSE
    /\ nops = 0
    /\ lastOp = "none"
    /\ lastKey = 0
    /\ lastItem = 0
    /\ lastRet = 0
    /\ ref = [k \in Keys |-> 0]

MNext ==
    \/ MapInsert
    \/ MapErase

\* ================================================================ quadtree

\* quadtree<int, int> tree(QWidth, QWidth): centred on (0, 0), its default
\* value is item_t{} = 0. A pointer to a quadrant is the sequence of the
\* quadrant it designates: << >> is nullptr. The four children of a quadrant
\* are allocated together, kids is << >> or <<ne, nw, sw, se>>.
QWidth == MaxWidth
NE == 1
NW == 2
SW == 3
SE == 4
quadtree_no_replace == 1

\* (key_t)(a / 2.) for key_t = int: the conversion truncates toward zero.
Half(a) == IF a >= 0 THEN a \div 2 ELSE -((-a) \div 2)

\* rect_bound_t, and m_root->bound as insert computes it.
Bound(l, r, t, b, cx, cy) ==
    [left |-> l, right |-> r, top |-> t, bottom |-> b, cx |-> cx, cy |-> cy]
RootBound ==
    Bound(Half(-QWidth), Half(-QWidth) + QWidth, Half(-QWidth) + QWidth, Half(-QWidth), 0, 0)

\* bool rect_bound_t::isInside(x, y)
isInside(b, x, y) == x >= b.left /\ x < b.right /\ y >= b.bottom /\ y < b.top

\* The points given to the calls: every point of the root quadrant, and one
\* outside of it (x = right is outside).
QCoords == RootBound.left .. (RootBound.right - 1)
InPoints == QCoords \X QCoords
OutPoints == {<<RootBound.right, 0>>}
QPoints == InPoints \cup OutPoints

\* The item of a call: 1 and 2 in turn, so that the tree can hold the same item
\* twice and two calls in a row never give the same item.
NextQItem == (q_ops % 2) + 1

\* A quadrant without children holding data at position (x, y).
Quadrant(data, x, y, bound) ==
    [data |-> data, x |-> x, y |-> y, bound |-> bound, kids |-> << >>]
HasKids(q) == q.kids # << >>

\* create_quadrants(parent): one child of parent, and parent with its four.
NewChild(l, r, t, b) ==
    Quadrant(m_default_value, 0, 0, Bound(l, r, t, b, Half(l + r), Half(t + b)))
create_quadrants(parent) ==
    Let(parent.bound, LAMBDA p :
    [parent EXCEPT !.kids =
        << NewChild(p.cx, p.right, p.top, p.cy),
           NewChild(p.left, p.cx, p.top, p.cy),
           NewChild(p.left, p.cx, p.cy, p.bottom),
           NewChild(p.cx, p.right, p.cy, p.bottom) >>])

\* The result of a recursive call on a quadrant: the quadrant and m_size as
\* the call leaves them, and what it returns.
QRes(q, size, r) == [q |-> q, size |-> size, ret |-> r]

\* insert_quadrant(quadrant, x, y, item).  InsertFirst is `a || b || c || d`
\* on the children from the i-th on, InsertEach the four calls in sequence.
RECURSIVE insert_quadrant(_, _, _, _, _)
RECURSIVE InsertFirst(_, _, _, _, _, _)
RECURSIVE InsertEach(_, _, _, _, _, _)
InsertFirst(q, size, x, y, item, i) ==
    IF i > SE THEN QRes(q, size, FALSE)
    ELSE Let(insert_quadrant(q.kids[i], size, x, y, item), LAMBDA r :
         IF r.ret THEN QRes([q EXCEPT !.kids[i] = r.q], r.size, TRUE)
         ELSE InsertFirst([q EXCEPT !.kids[i] = r.q], r.size, x, y, item, i + 1))

\* The point a quadrant held is not pushed into its new children.
InsertEach_Dropped(q, size, x, y, item, i) == QRes(q, size + 1, FALSE)

InsertEach(q, size, x, y, item, i) ==
    IF i > SE THEN QRes(q, size, FALSE)
    ELSE Let(insert_quadrant(q.kids[i], size, x, y, item), LAMBDA r :
         InsertEach([q EXCEPT !.kids[i] = r.q], r.size, x, y, item, i + 1))

insert_quadrant(q, size, x, y, item) ==
    IF ~isInside(q.bound, x, y) THEN QRes(q, size, FALSE)
    ELSE IF HasKids(q) THEN InsertFirst(q, size, x, y, item, NE)
    ELSE IF q.data = m_default_value
    THEN QRes([q EXCEPT !.data = item, !.x = x, !.y = y], size + 1, TRUE)
    ELSE IF q.x # x \/ q.y # y
    THEN Let(InsertEach(create_quadrants(q), size, q.x, q.y, q.data, NE), LAMBDA d :
         InsertFirst(d.q, d.size - 1, x, y, item, NE))
    ELSE IF m_behaviour_flag # quadtree_no_replace
    THEN QRes([q EXCEPT !.data = item], size, TRUE)
    ELSE QRes(q, size, FALSE)

\* select_quadrant(quadrant, x, y): which child, 0 for nullptr.
select_quadrant(q, x, y) ==
    IF ~isInside(q.bound, x, y) THEN 0
    ELSE IF x >= q.bound.cx /\ y >= q.bound.cy THEN NE
    ELSE IF x < q.bound.cx /\ y >= q.bound.cy THEN NW
    ELSE IF x >= q.bound.cx /\ y < q.bound.cy THEN SE
    ELSE SW

\* get_value(quadrant, x, y) of the point quadtree.
RECURSIVE get_value(_, _, _)
get_value(q, x, y) ==
    IF ~isInside(q.bound, x, y) THEN m_default_value
    ELSE IF HasKids(q) THEN get_value(q.kids[select_quadrant(q, x, y)], x, y)
    ELSE IF q.x = x /\ q.y = y THEN q.data
    ELSE m_default_value

\* compute_depth(quadrant), quadrant not null.
RECURSIVE compute_depth(_)
Max(a, b) == IF a >= b THEN a ELSE b
compute_depth(q) ==
    IF HasKids(q)
    THEN Max(Max(compute_depth(q.kids[NE]), compute_depth(q.kids[NW])),
             Max(compute_depth(q.kids[SW]), compute_depth(q.kids[SE]))) + 1
    ELSE 0

\* find_quadrant(quadrant, item, keys, ==), quadrant not null: whether a leaf
\* holds item, and the keys it then wrote.
RECURSIVE find_quadrant(_, _)
RECURSIVE FindFirst(_, _, _)
FindFirst(q, item, i) ==
    IF i > SE THEN [found |-> FALSE]
    ELSE Let(find_quadrant(q.kids[i], item), LAMBDA r :
         IF r.found THEN r ELSE FindFirst(q, item, i + 1))
find_quadrant(q, item) ==
    IF HasKids(q) THEN FindFirst(q, item, NE)
    ELSE IF q.data = item THEN [found |-> TRUE, x |-> q.x, y |-> q.y]
    ELSE [found |-> FALSE]

\* remove_quadrant(quadrant, x, y), quadrant not null. RemoveEach is the four
\* calls on the children, empty the sequence of what they returned.
RECURSIVE remove_quadrant(_, _, _, _)
RECURSIVE RemoveEach(_, _, _, _, _)
RemoveEach(q, size, x, y, empty) ==
    IF Len(empty) = SE THEN QRes(q, size, empty)
    ELSE Let(remove_quadrant(q.kids[Len(empty) + 1], size, x, y), LAMBDA r :
         RemoveEach([q EXCEPT !.kids[Len(empty) + 1] = r.q], r.size, x, y,
                    Append(empty, r.ret)))

\* The first child that is not empty (ne, nw, sw, else se).
NotEmptyOne(q, empty) ==
    IF ~empty[NE] THEN q.kids[NE]
    ELSE IF ~empty[NW] THEN q.kids[NW]
    ELSE IF ~empty[SW] THEN q.kids[SW]
    ELSE q.kids[SE]

Collapse(d) ==
    Let(Cardinality({i \in NE .. SE : d.ret[i]}), LAMBDA n :
    IF n = 4
    THEN QRes([d.q EXCEPT !.kids = << >>, !.data = m_default_value, !.x = 0, !.y = 0],
              d.size, TRUE)
    ELSE IF n = 3
    THEN QRes([d.q EXCEPT !.kids = << >>,
                          !.data = NotEmptyOne(d.q, d.ret).data,
                          !.x = NotEmptyOne(d.q, d.ret).x,
                          !.y = NotEmptyOne(d.q, d.ret).y],
              d.size, FALSE)
    ELSE QRes(d.q, d.size, FALSE))

remove_quadrant(q, size, x, y) ==
    IF HasKids(q) THEN Collapse(RemoveEach(q, size, x, y, << >>))
    ELSE IF q.x = x /\ q.y = y
    THEN QRes([q EXCEPT !.data = m_default_value, !.x = 0, !.y = 0], size - 1, TRUE)
    ELSE IF q.data = m_default_value THEN QRes(q, size, TRUE)
    ELSE QRes(q, size, FALSE)

\* remove_all_quadrant(quadrant, item, criterion), quadrant not null, with the
\* default criterion (equality). RemoveAllEach is the four calls on the children.
RECURSIVE remove_all_quadrant(_, _, _)
RECURSIVE RemoveAllEach(_, _, _, _)
RemoveAllEach(q, size, item, empty) ==
    IF Len(empty) = SE THEN QRes(q, size, empty)
    ELSE Let(remove_all_quadrant(q.kids[Len(empty) + 1], size, item), LAMBDA r :
         RemoveAllEach([q EXCEPT !.kids[Len(empty) + 1] = r.q], r.size, item,
                       Append(empty, r.ret)))

remove_all_quadrant(q, size, item) ==
    IF HasKids(q) THEN Collapse(RemoveAllEach(q, size, item, << >>))
    ELSE IF q.data = item
    THEN QRes([q EXCEPT !.data = m_default_value, !.x = 0, !.y = 0], size - 1, TRUE)
    ELSE IF q.data = m_default_value THEN QRes(q, size, TRUE)
    ELSE QRes(q, size, FALSE)

\* A quadtree<int, int> just constructed.
QInit ==
    /\ q_root = << >>
    /\ q_size = 0
    /\ q_depth = 0
    /\ m_default_value = 0
    /\ m_behaviour_flag = 0
    /\ q_ops = 0
    /\ q_call = [op |-> "none"]
    /\ q_ref = [p \in QPoints |-> 0]

\* What a call leaves: the root, m_size and m_depth.
QAfter(root, size, depth) ==
    /\ q_root' = root
    /\ q_size' = size
    /\ q_depth' = depth

\* The reference content after insert(x, y, item): a point outside the bounds is
\* not stored, a stored point keeps its value under the no-replace flag.
RefInsert(x, y, item) ==
    IF <<x, y>> \notin InPoints THEN q_ref
    ELSE IF q_ref[<<x, y>>] # 0 /\ m_behaviour_flag = quadtree_no_replace THEN q_ref
    ELSE [q_ref EXCEPT ![<<x, y>>] = item]

\* size_t insert(key_t x, key_t y, const item_t& item)
QuadInsert(x, y, item) ==
    /\ q_ops < MaxQuadOps
    /\ q_ops' = q_ops + 1
    /\ IF q_root = << >>
       THEN QAfter(<<Quadrant(item, x, y, RootBound)>>, q_size + 1, q_depth)
       ELSE Let(insert_quadrant(q_root[1], q_size, x, y, item), LAMBDA r :
            QAfter(<<r.q>>, r.size, compute_depth(r.q)))
    /\ q_call' = [op |-> "insert", x |-> x, y |-> y, item |-> item]
    /\ q_ref' = RefInsert(x, y, item)
    /\ UNCHANGED <<m_default_value, m_behaviour_flag>>
    /\ UNCHANGED notQuad

\* void remove(key_t x, key_t y)
QuadRemove(x, y) ==
    /\ q_ops < MaxQuadOps
    /\ q_ops' = q_ops + 1
    /\ IF q_root = << >>
       THEN QAfter(q_root, q_size, 0)
       ELSE Let(remove_quadrant(q_root[1], q_size, x, y), LAMBDA r :
            QAfter(<<r.q>>, r.size, compute_depth(r.q)))
    /\ q_call' = [op |-> "remove", x |-> x, y |-> y, item |-> 0]
    /\ q_ref' = [q_ref EXCEPT ![<<x, y>>] = 0]
    /\ UNCHANGED <<m_default_value, m_behaviour_flag>>
    /\ UNCHANGED notQuad

\* void remove_all(const item_t& item, criterion)
QuadRemoveAll(item) ==
    /\ q_ops < MaxQuadOps
    /\ q_ops' = q_ops + 1
    /\ IF q_root = << >>
       THEN QAfter(q_root, q_size, 0)
       ELSE Let(remove_all_quadrant(q_root[1], q_size, item), LAMBDA r :
            QAfter(<<r.q>>, r.size, compute_depth(r.q)))
    /\ q_call' = [op |-> "remove_all", x |-> 0, y |-> 0, item |-> item]
    /\ q_ref' = [p \in QPoints |-> IF q_ref[p] = item THEN 0 ELSE q_ref[p]]
    /\ UNCHANGED <<m_default_value, m_behaviour_flag>>
    /\ UNCHANGED notQuad

\* void set_behaviour_flag(uint8_t flag)
QuadSetFlag(flag) ==
    /\ q_ops < MaxQuadOps
    /\ q_ops' = q_ops + 1
    /\ m_behaviour_flag # flag
    /\ m_behaviour_flag' = flag
    /\ q_call' = [op |-> "set_behaviour_flag", x |-> 0, y |-> 0, item |-> flag]
    /\ UNCHANGED <<q_root, q_size, q_depth, m_default_value, q_ref>>
    /\ UNCHANGED notQuad

\* No quadtree constructed.
QuadUnused ==
    /\ q_root = << >>
    /\ q_size = 0
    /\ q_depth = 0
    /\ m_default_value = 0
    /\ m_behaviour_flag = 0
    /\ q_ops = 0
    /\ q_call = [op |-> "none"]
    /\ q_ref = << >>

QNext ==
    \/ \E p \in QPoints : QuadInsert(p[1], p[2], NextQItem)
    \/ \E p \in QPoints : QuadRemove(p[1], p[2])
    \/ \E flag \in {0, quadtree_no_replace} : QuadSetFlag(flag)

\* Inserts inside the bounds, and the two removals.
QNextRemovals ==
    \/ \E p \in InPoints : QuadInsert(p[1], p[2], NextQItem)
    \/ \E p \in InPoints : QuadRemove(p[1], p[2])
    \/ \E item \in {1, 2} : QuadRemoveAll(item)

\* Only inserts of new points inside the bounds.
QNextInserts ==
    \E p \in InPoints :
        /\ q_ref[p] = 0
        /\ QuadInsert(p[1], p[2], NextQItem)

\* ========================================================= quadtree_region

\* quadtree_region<int> tree(QWidth, QWidth): a quadtree<int, bool> whose
\* default value is false, with its own insert, insert_quadrant and get_value.

\* insert_quadrant(quadrant, x, y, item) of the region quadtree.  RegionEach is
\* the sum of the four calls on the children from the i-th on, n the sum so
\* far; RegionPush the four calls that give the children, each at its own
\* centre, the value their parent had.
RECURSIVE region_insert_quadrant(_, _, _, _, _)
RECURSIVE RegionEach(_, _, _, _, _, _, _)
RECURSIVE RegionPush(_, _, _, _)
RegionEach(q, size, x, y, item, i, n) ==
    IF i > SE THEN QRes(q, size, n)
    ELSE Let(region_insert_quadrant(q.kids[i], size, x, y, item), LAMBDA r :
         RegionEach([q EXCEPT !.kids[i] = r.q], r.size, x, y, item, i + 1,
                    IF r.ret THEN n + 1 ELSE n))

RegionPush(q, size, item, i) ==
    IF i > SE THEN QRes(q, size, FALSE)
    ELSE Let(region_insert_quadrant(q.kids[i], size, q.kids[i].bound.cx,
                                    q.kids[i].bound.cy, item), LAMBDA r :
         RegionPush([q EXCEPT !.kids[i] = r.q], r.size, item, i + 1))

\* The four children are leaves holding the same value.
Uniform(q) ==
    /\ compute_depth(q) = 1
    /\ \A i \in NW .. SE : q.kids[NE].data = q.kids[i].data

\* A leaf that create_quadrants can divide, in x or in y.
Divisible(b) ==
    \/ b.left # b.cx /\ b.right # b.cx
    \/ b.bottom # b.cy /\ b.top # b.cy

\* A quadrant that is never merged.
Merged_Never(d) == QRes(d.q, d.size, FALSE)

\* The quadrant after the calls on its children: merged when they are uniform.
Merged(d) ==
    IF d.ret > 0 /\ Uniform(d.q)
    THEN QRes([d.q EXCEPT !.data = d.q.kids[NE].data, !.kids = << >>], d.size, TRUE)
    ELSE QRes(d.q, d.size, FALSE)

region_insert_quadrant(q, size, x, y, item) ==
    IF ~isInside(q.bound, x, y) THEN QRes(q, size, FALSE)
    ELSE IF HasKids(q) THEN Merged(RegionEach(q, size, x, y, item, NE, 0))
    ELSE IF q.data # item
    THEN IF Divisible(q.bound)
         THEN Let(RegionPush(create_quadrants(q), size, q.data, NE), LAMBDA d :
              Let(RegionEach(d.q, d.size, x, y, item, NE, 0), LAMBDA r :
              QRes(r.q, r.size, FALSE)))
         ELSE QRes([q EXCEPT !.data = item], IF item THEN size + 1 ELSE size - 1, TRUE)
    ELSE QRes(q, size, FALSE)

\* get_value(quadrant, x, y) of the region quadtree.
RECURSIVE region_get_value(_, _, _)
region_get_value(q, x, y) ==
    IF ~isInside(q.bound, x, y) THEN m_default_value
    ELSE IF HasKids(q) THEN region_get_value(q.kids[select_quadrant(q, x, y)], x, y)
    ELSE q.data

\* A quadtree_region<int> just constructed.
RInit ==
    /\ q_root = << >>
    /\ q_size = 0
    /\ q_depth = 0
    /\ m_default_value = FALSE
    /\ m_behaviour_flag = 0
    /\ q_ops = 0
    /\ q_call = [op |-> "none"]
    /\ q_ref = [p \in InPoints |-> FALSE]

\* The root insert works on: m_root, or the root it allocates when there is none.
RegionRoot ==
    IF q_root = << >> THEN Quadrant(m_default_value, 0, 0, RootBound) ELSE q_root[1]

\* size_t insert(key_t x, key_t y, const bool& item), called by set and unset.
RegionInsert(x, y, item) ==
    /\ q_ops < MaxRegionOps
    /\ q_ops' = q_ops + 1
    /\ Let(region_insert_quadrant(RegionRoot, q_size, x, y, item), LAMBDA r :
       QAfter(<<r.q>>, r.size, compute_depth(r.q)))
    /\ q_call' = [op |-> IF item THEN "set" ELSE "unset", x |-> x, y |-> y, item |-> item]
    /\ q_ref' = IF <<x, y>> \in InPoints THEN [q_ref EXCEPT ![<<x, y>>] = item] ELSE q_ref
    /\ UNCHANGED <<m_default_value, m_behaviour_flag>>
    /\ UNCHANGED notQuad

\* void set(key_t x, key_t y) and void unset(key_t x, key_t y)
RegionSet(x, y) == RegionInsert(x, y, TRUE)
RegionUnset(x, y) == RegionInsert(x, y, FALSE)

\* set(x, y) on a cell that no call has set yet: the calls of a fill of the
\* whole region, one cell at a time, in any order.  The number of calls is
\* bounded by the number of cells; q_call keeps the name of the call only.
RegionFill(x, y) ==
    /\ ~q_ref[<<x, y>>]
    /\ q_ops' = q_ops + 1
    /\ Let(region_insert_quadrant(RegionRoot, q_size, x, y, TRUE), LAMBDA r :
       QAfter(<<r.q>>, r.size, compute_depth(r.q)))
    /\ q_call' = [op |-> "set"]
    /\ q_ref' = [q_ref EXCEPT ![<<x, y>>] = TRUE]
    /\ UNCHANGED <<m_default_value, m_behaviour_flag>>
    /\ UNCHANGED notQuad

\* unset(x, y) on a cell whose last written value is true: the calls that
\* take back, one cell at a time, what a fill has set.
RegionDrain(x, y) ==
    /\ q_ref[<<x, y>>]
    /\ q_ops' = q_ops + 1
    /\ Let(region_insert_quadrant(RegionRoot, q_size, x, y, FALSE), LAMBDA r :
       QAfter(<<r.q>>, r.size, compute_depth(r.q)))
    /\ q_call' = [op |-> "unset"]
    /\ q_ref' = [q_ref EXCEPT ![<<x, y>>] = FALSE]
    /\ UNCHANGED <<m_default_value, m_behaviour_flag>>
    /\ UNCHANGED notQuad

RNext ==
    \/ \E p \in QPoints : RegionSet(p[1], p[2])
    \/ \E p \in QPoints : RegionUnset(p[1], p[2])

\* ----------------------------------------------------------- specifications

\* The pipeline, its stages added, used by one client thread.
InitPipeline == PInit /\ PoolUnused /\ MapUnused /\ QuadUnused
SpecPipeline == InitPipeline /\ [][PNext]_vars

\* The pipeline under the scheduling the operating system guarantees: a worker
\* thread that can take a step of execute_process eventually takes it, and a
\* feed that has started ends.  A condition variable need not wake up without
\* a notification, and when to call feed, stop and wait_end is the client's
\* choice.
WorkerStep(s) ==
    /\ s \in Stages
    /\ \/ WhileContinue(s) \/ LockOwn(s) \/ Pred(s) \/ Pred0(s) \/ Pred0Continue(s)
       \/ CvWait(s) \/ CvRelock(s) \/ TakeArgument(s) \/ Transform(s)
       \/ HandoffLock(s) \/ HandoffUnlock(s) \/ FinalDecrement(s) \/ FinalClear(s)
FairPipeline ==
    /\ \A s \in 0 .. (MaxStages - 1) : WF_vars(WorkerStep(s))
    /\ WF_vars(FeedPush)
FairSpecPipeline == InitPipeline /\ [][PNext]_vars /\ FairPipeline

\* The worker pool, used by one submitting thread.
InitPool == WInit /\ PipelineUnused /\ MapUnused /\ QuadUnused
SpecPool == InitPool /\ [][WNext]_vars

\* The worker pool under the scheduling the operating system guarantees: a thread
\* that can take a step of worker(), of the critical section of new_work or of
\* wait_for_join eventually takes it, and a work's callable eventually ends
\* (returning or throwing). When to submit and when to join is the caller's choice.
FairPool ==
    /\ \A t \in PoolThreads : WF_vars(RunWork(t) \/ RunWorkRaises(t))
    /\ \A t \in PoolThreads : WF_vars(WorkerLock(t))
    /\ \A t \in PoolThreads : WF_vars(WorkerNext(t))
    /\ \A c \in Callers : WF_vars(NewWork(c))
    /\ WF_vars(JoinBack)
    /\ WF_vars(JoinReturn)
    /\ WF_vars(PopBack)
FairSpecPool == InitPool /\ [][WNext]_vars /\ FairPool

\* The ordered map, used by one thread.
InitMap == MInit /\ PipelineUnused /\ PoolUnused /\ QuadUnused
SpecMap == InitMap /\ [][MNext]_vars

\* The ordered map filled by inserts only.
SpecMapInserts == InitMap /\ [][MapInsert]_vars

\* The point quadtree, used by one thread; and filled by inserts of new points
\* inside its bounds only.
InitQuad == QInit /\ PipelineUnused /\ PoolUnused /\ MapUnused
SpecQuad == InitQuad /\ [][QNext]_vars
SpecQuadInserts == InitQuad /\ [][QNextInserts]_vars
SpecQuadRemovals == InitQuad /\ [][QNextRemovals]_vars

\* The region quadtree, used by one thread.
InitRegion == RInit /\ PipelineUnused /\ PoolUnused /\ MapUnused
SpecRegion == InitRegion /\ [][RNext]_vars

\* The region quadtree filled cell by cell.
RFillNext == \E p \in InPoints : RegionFill(p[1], p[2])
SpecRegionFill == InitRegion /\ [][RFillNext]_vars

\* The region quadtree in a round trip: at most MaxRegionOps cells are set,
\* then cells that are set are unset; no set follows an unset.
RRoundNext ==
    \/ \E p \in InPoints :
          q_ops < MaxRegionOps /\ q_call.op # "unset" /\ RegionFill(p[1], p[2])
    \/ \E p \in InPoints : RegionDrain(p[1], p[2])
SpecRegionRound == InitRegion /\ [][RRoundNext]_vars

\* ======================================================= pipeline: claims

\* The data that are in the slot of some stage, and the pipeline at rest:
\* every worker blocked on its condition variable, nothing waiting, nothing in a slot.
SlotsEmpty == \A s \in Stages : m_passing_arguments[s] = Null
AllWaiting == \A s \in Stages : wpc[s] = "waiting"
LastStage == m_process_count - 1

\* C1: with stop not requested, no item is lost in a handoff: once the pipeline is
\* at rest (client idle, every worker waiting, waiting list and slots empty) the
\* number of items completed by the final stage equals the number of items fed.
C1_CompletedEqualsFed ==
    (m_continue /\ cpc = "idle" /\ AllWaiting /\ m_waiting_list = <<>> /\ SlotsEmpty)
        => Len(finished) = fed

\* C2: once the in-flight counter has reached zero, the caller of wait_end does not
\* stay blocked on the end condition variable: it is never blocked there with the
\* counter at zero while every worker is itself blocked (nobody left to notify it).
C2_WaitEndNotStuck ==
    ~(cpc = "we_wait" /\ m_jobs_in_pipeline = 0 /\ AllWaiting)

\* C3: when wait_end returns, the in-flight counter is zero, the waiting list is
\* empty, every stage slot is empty and every fed item has cleared the final stage.
C3_WaitEndQuiescent ==
    cpc = "we_ret" =>
        /\ m_jobs_in_pipeline = 0
        /\ m_waiting_list = <<>>
        /\ SlotsEmpty
        /\ Len(finished) = fed
        /\ \A k \in 1 .. fed : \E i \in 1 .. Len(finished) : finished[i] = k

\* C3 witness: wait_end has returned from a pipeline of several stages that was fed
\* several items.
C3_Witness == cpc = "we_ret" /\ fed >= 2 /\ m_process_count >= 2

\* C4: a stage writes into the next stage's slot only when that slot is empty:
\* a slot that holds a datum never receives another one.
C4_SlotNeverOverwritten ==
    [][\A s \in Stages :
          (m_passing_arguments'[s] # m_passing_arguments[s] /\ m_passing_arguments'[s] # Null)
              => m_passing_arguments[s] = Null]_vars

\* C5: per-stage FIFO. The data carry the number of the feed call they come from,
\* so "in the order fed / produced" is: every stage starts its transforms on
\* strictly increasing feed numbers, each of them fed (stage 0) or already
\* transformed by the preceding stage (stage i > 0).
C5_StageFifo ==
    \A s \in Stages :
        /\ \A i, j \in 1 .. Len(started[s]) : i < j => started[s][i] < started[s][j]
        /\ \A i \in 1 .. Len(started[s]) :
               IF s = 0 THEN started[s][i] \in 1 .. fed
               ELSE \E k \in 1 .. Len(started[s - 1]) : started[s - 1][k] = started[s][i]

\* C5 witness: a stage after the first has started two items, and stage 0 three.
C5_Witness ==
    /\ m_process_count >= 2
    /\ Len(started[0]) >= 3
    /\ \E s \in Stages : s > 0 /\ Len(started[s]) >= 2

C7_NoWorkerLeftBlocked ==
    ~(/\ cpc = "stop_join"
      /\ \E s \in Stages : wpc[s] = "waiting"
      /\ \A s \in Stages : wpc[s] \in {"waiting", "done"})

\* C8: two different stages that execute their transforms at the same time do so on
\* two different items (that such a state exists is the witness).
C8_ConcurrentOnDifferentItems ==
    \A s, t \in Stages :
        (s # t /\ wpc[s] = "run" /\ wpc[t] = "run") => arg[s].id # arg[t].id

\* C8 witness: two different stages are executing their transforms at the same time.
C8_Witness ==
    \E s, t \in Stages :
        /\ s # t
        /\ wpc[s] = "run" /\ wpc[t] = "run"
        /\ arg[s] # Null /\ arg[t] # Null /\ arg[s].id # arg[t].id

\* The thread holding a stage mutex / the waiting-list mutex (workers by stage
\* number, the client after them), and the holder of the mutex a thread is
\* blocked on.
ClientThread == m_process_count
Threads == 0 .. m_process_count
HolderOfMutex(s) ==
    IF m_mutexes[s] = "own" THEN {s}
    ELSE IF m_mutexes[s] = "prev" THEN {s - 1}
    ELSE IF m_mutexes[s] = "client" THEN {ClientThread}
    ELSE {}
HolderOfWaitingListAccess ==
    IF m_waiting_list_access = "worker" THEN {0}
    ELSE IF m_waiting_list_access = "client" THEN {ClientThread}
    ELSE {}
WaitsFor(t) ==
    IF t = ClientThread
    THEN IF cpc = "feed" THEN HolderOfWaitingListAccess
         ELSE IF cpc = "stop_locks" THEN HolderOfMutex(ci)
         ELSE {}
    ELSE IF wpc[t] \in {"lock", "woken"} THEN HolderOfMutex(t)
         ELSE IF wpc[t] = "handoff" THEN HolderOfMutex(t + 1)
         ELSE IF wpc[t] = "pred0" THEN HolderOfWaitingListAccess
         ELSE {}
RECURSIVE WaitChain(_, _)
WaitChain(T, k) ==
    IF k = 0 THEN T
    ELSE WaitChain(T \cup UNION {WaitsFor(u) : u \in T}, k - 1)
NoMutexDeadlock ==
    \A t \in Threads : t \notin WaitChain(WaitsFor(t), m_process_count + 1)

\* C9: a worker acquires stage i+1's mutex only while holding stage i's, never
\* acquires its own mutex while holding the next stage's, and no reachable state
\* has threads waiting on each other's mutexes in a cycle.
C9_LockOrder ==
    /\ []NoMutexDeadlock
    /\ [][\A s \in Stages :
            /\ (m_mutexes'[s] = "prev" /\ m_mutexes[s] # "prev") => m_mutexes[s - 1] = "own"
            /\ (m_mutexes'[s] = "own" /\ m_mutexes[s] # "own" /\ s # LastStage)
                   => m_mutexes[s + 1] # "prev"]_vars

\* C9 witness: a worker has run its transform, holds its own mutex and is blocked
\* on the next stage's mutex, held by the next stage's worker during its transform.
C9_Witness ==
    \E s \in Stages :
        /\ s # LastStage
        /\ wpc[s] = "handoff" /\ m_mutexes[s] = "own"
        /\ wpc[s + 1] = "run" /\ m_mutexes[s + 1] = "own"
        /\ WaitsFor(s) = {s + 1}

\* ================================================================ pool: claims

\* C10: the active-thread counter never exceeds max_threads, and a work submitted
\* while the counter equals max_threads goes to the backlog and gets no thread.
C10_ActiveBound ==
    /\ [](m_active_threads <= max_threads)
    /\ [][((\E c \in Callers : InNewWork(c)) /\ m_mutex' = {} /\ m_active_threads = max_threads)
            => /\ wt_waiting_list' = Append(wt_waiting_list, submitted)
               /\ m_workers' = m_workers
               /\ m_active_threads' = m_active_threads]_vars

\* C10 witness: with a positive max_threads, every thread slot is taken and a work
\* waits in the backlog.
C10_Witness ==
    /\ max_threads > 0
    /\ m_active_threads = max_threads
    /\ Len(wt_waiting_list) > 0

\* C11: every work submitted with new_work is eventually run, and run exactly
\* once, when every work's callable returns: no work stays in the backlog for ever,
\* whatever max_threads is and however submissions and worker exits interleave.
C11_EveryTaskRuns ==
    ([](raised = {})) =>
        /\ [](\A w \in Works : ran[w] <= 1)
        /\ \A w \in Works : (submitted >= w) ~> (ran[w] = 1)

\* wait_for_join returns in this step.
WaitForJoinReturns == mpc = "join" /\ mpc' = "idle"

\* C12: wait_for_join returns only after every thread spawned before the call has
\* finished; and when no new_work was called since the call started, on return
\* every work submitted so far has run, the backlog is empty and the
\* active-thread counter is 0.
C12_JoinWaitsForAll ==
    [][WaitForJoinReturns =>
          /\ \A t \in joinSpawned : wtpc[t] = "done"
          /\ (submitted = joinSubmitted) =>
                /\ \A w \in 1 .. submitted : ran[w] >= 1
                /\ wt_waiting_list = <<>>
                /\ m_active_threads = 0]_vars

\* C13: a work that raises counts as completed with failure: the thread that ran
\* it is still a worker that goes on to the backlog (it has not left worker() by
\* the exception), and the process, hence the other works and the decrement of
\* the active-thread counter at the worker's exit, is still there.
C13_RaisedTaskCompletes ==
    raised # {} => (~terminated /\ \A t \in PoolThreads : wtpc[t] # "threw")

\* ============================================================ map: claims

\* What at(key) gives in the current state: the item found, Absent when it
\* returns nullptr, Undefined when the search reads a freed node or never ends.
Absent == 0
Undefined == -1
AtOf(r) ==
    IF r.st.bad # "ok" THEN Undefined
    ELSE IF r.n = Nil THEN Absent
    ELSE nodes[r.n].item
At(key) == AtOf(search(Start, m_root, key, Fuel))

\* The step is a call of insert / of erase with this key.
InsertOf(key) == lastOp' = "insert" /\ lastKey' = key /\ nops' = nops + 1
EraseOf(key) == lastOp' = "erase" /\ lastKey' = key /\ nops' = nops + 1

\* C14: insert(key, item) with no equal key stored returns true, size grows by
\* exactly one and at(key) yields the inserted item; with an equal key stored it
\* returns false and the map is unchanged (same size, same keys, the old item kept).
C14_Insert ==
    [][\A key \in Keys : InsertOf(key) =>
          /\ ~mfault'
          /\ IF ref[key] = Absent
             THEN /\ lastRet' = TRUE
                  /\ m_size' = m_size + 1
                  /\ At(key)' = lastItem'
             ELSE /\ lastRet' = FALSE
                  /\ m_size' = m_size
                  /\ \A k \in Keys : At(k)' = At(k)]_vars

\* The nodes met walking down the links from node n (each once, also on a cycle),
\* and the nodes of the tree.
RECURSIVE Below(_, _)
Below(n, fuel) ==
    IF n = Nil \/ fuel = 0 THEN {}
    ELSE {n} \cup Below(nodes[n].left, fuel - 1) \cup Below(nodes[n].right, fuel - 1)
TreeNodes == Below(m_root, Fuel)

\* The keys the reference map holds.
RefKeys == {k \in Keys : ref[k] # Absent}

\* C15: after every sequence of insert and erase calls the visible content of the
\* map (the keys at() finds, their items, and size()) is that of a reference
\* sorted map fed the same calls, which completes every call.
C15_RefinesSortedMap ==
    /\ ~mfault
    /\ \A k \in Keys : At(k) = ref[k]
    /\ m_size = Cardinality(RefKeys)

\* The tree has no cycle and no freed node: height() is defined on every node.
WellFormed == ~Hgt(nodes, m_root, Fuel).ovf /\ ~Hgt(nodes, m_root, Fuel).uaf

\* C16: after every public insert or erase has returned, every node of the tree
\* has subtrees whose heights differ by at most one (stated of the trees on
\* which height() is defined).
C16_AvlBalance ==
    (~mfault /\ WellFormed) =>
        \A n \in TreeNodes :
            ShortDiff(Hgt(nodes, nodes[n].left, Fuel).ht,
                      Hgt(nodes, nodes[n].right, Fuel).ht) \in {-1, 0, 1}

\* C17: after every public insert or erase has returned, every key in the left
\* subtree of a node is strictly less than the node's key and every key in its
\* right subtree strictly greater.
C17_BstOrder ==
    ~mfault =>
        \A n \in TreeNodes :
            /\ \A l \in Below(nodes[n].left, Fuel) : nodes[l].key < nodes[n].key
            /\ \A r \in Below(nodes[n].right, Fuel) : nodes[r].key > nodes[n].key

\* The number of nodes counted walking the tree from the root (a node with two
\* ways to it counts twice).
RECURSIVE Count(_, _)
Count(n, fuel) ==
    IF n = Nil \/ fuel = 0 THEN 0
    ELSE 1 + Count(nodes[n].left, fuel - 1) + Count(nodes[n].right, fuel - 1)

\* C18: after every sequence of insert and erase calls, size() is the number of
\* nodes reachable from the root, and these nodes form a finite tree of
\* allocated nodes without a cycle.
C18_SizeIsNodeCount ==
    ~mfault =>
        /\ WellFormed
        /\ m_size = Cardinality(TreeNodes)
        /\ m_size = Count(m_root, Fuel)

\* C19: erase(key) of a stored key completes without fault and returns the new
\* size; afterwards at(key) is absent, the size is one less and every other key
\* is still there with its item, whatever the shape of the node erased.
C19_EraseStored ==
    [][\A key \in Keys : (EraseOf(key) /\ ref[key] # Absent) =>
          /\ ~mfault'
          /\ At(key)' = Absent
          /\ m_size' = m_size - 1
          /\ lastRet' = m_size'
          /\ \A k \in Keys \ {key} : At(k)' = At(k)]_vars

\* C20: erase(key) of a key that is not stored (never inserted, or erased
\* since) returns the unchanged size and leaves the keys, the items and the
\* structure of the tree as they were.
C20_EraseAbsent ==
    [][\A key \in Keys : (EraseOf(key) /\ ref[key] = Absent) =>
          /\ ~mfault'
          /\ lastRet' = m_size
          /\ m_size' = m_size
          /\ nodes' = nodes
          /\ m_root' = m_root]_vars

\* C21: after any number of inserts, the loop from begin() to end() visits the
\* stored keys, each once, in ascending order, and the loop from rbegin() to
\* rend() visits them, each once, in descending order; both loops end.
RECURSIVE Ascending(_)
Ascending(S) ==
    IF S = {} THEN << >>
    ELSE Let(CHOOSE k \in S : \A j \in S : k <= j, LAMBDA k :
         <<k>> \o Ascending(S \ {k}))

RECURSIVE Descending(_)
Descending(S) ==
    IF S = {} THEN << >>
    ELSE Let(CHOOSE k \in S : \A j \in S : k >= j, LAMBDA k :
         <<k>> \o Descending(S \ {k}))

C21_IterationOrdered ==
    (lastOp = "insert" /\ ~mfault) =>
        /\ Iterate("KEY_ORDER") = [keys |-> Ascending(RefKeys), ok |-> TRUE]
        /\ Iterate("KEY_REVERSE_ORDER") = [keys |-> Descending(RefKeys), ok |-> TRUE]

\* ========================================================= quadtree: claims

\* at(x, y): the value returned; a quadtree never inserted into has no root, and
\* get_value then dereferences nullptr.
QuadAt(p) ==
    IF q_root = << >> THEN [fault |-> TRUE, value |-> m_default_value]
    ELSE [fault |-> FALSE, value |-> get_value(q_root[1], p[1], p[2])]
Stored(v) == [fault |-> FALSE, value |-> v]

\* C22: after inserts at pairwise distinct points inside the bounds, with items
\* other than the default, size() (what the last insert returned) is the number
\* of inserts and at(p) is the item inserted at p, for every point p inserted,
\* however the quadrants were divided since.
C22_InsertsStored ==
    q_call.op = "insert" =>
        /\ q_size = q_ops
        /\ \A p \in InPoints : q_ref[p] # 0 => QuadAt(p) = Stored(q_ref[p])

\* Four points stored, two of them in one quadrant of a divided quadrant.
C22_Witness == q_size = MaxQuadOps /\ q_depth >= 2

\* The quadrants without children below q, and the points the tree holds: the
\* leaves whose data is not the default value, with their data_position.
RECURSIVE Leaves(_)
Leaves(q) ==
    IF HasKids(q) THEN UNION {Leaves(q.kids[i]) : i \in NE .. SE} ELSE {q}
Held == IF q_root = << >> THEN {} ELSE {l \in Leaves(q_root[1]) : l.data # m_default_value}
HeldAt(p) == {l.data : l \in {k \in Held : k.x = p[1] /\ k.y = p[2]}}

\* The point of the last call.
CallPoint == <<q_call.x, q_call.y>>

\* C23: an insert at a coordinate that holds a point leaves size() as it is;
\* the point then holds the new item, or, under the no-replace flag, the item
\* it had.
C23_DuplicateInsert ==
    [][(q_call'.op = "insert" /\ HeldAt(CallPoint') # {}) =>
          /\ q_size' = q_size
          /\ HeldAt(CallPoint)' =
                IF m_behaviour_flag = quadtree_no_replace THEN HeldAt(CallPoint')
                ELSE {q_call'.item}]_vars

\* find(item, keys): what it returns and the keys it wrote.
QuadFind(item) ==
    IF q_root = << >> THEN [found |-> FALSE] ELSE find_quadrant(q_root[1], item)

\* C24: when a point the tree holds has the value v, find(v) returns true and
\* the keys it gives are those of a point whose at() is v; when no point has
\* the value v, find(v) returns false.
C24_Find ==
    \A v \in {m_default_value, 1, 2} :
        IF \E l \in Held : l.data = v
        THEN /\ QuadFind(v).found
             /\ QuadAt(<<QuadFind(v).x, QuadFind(v).y>>) = Stored(v)
        ELSE ~QuadFind(v).found

\* C25: remove(x, y) of a point the tree holds: afterwards at(x, y) is the
\* default value, size() is one less, and depth() is the depth of the tree as
\* remove left it, 0 when one point remains.
C25_RemoveStored ==
    [][(q_call'.op = "remove" /\ HeldAt(CallPoint') # {}) =>
          /\ (QuadAt(CallPoint))' = Stored(m_default_value)
          /\ q_size' = q_size - 1
          /\ q_depth' = compute_depth(q_root'[1])
          /\ Cardinality(Held') = 1 => q_depth' = 0]_vars

\* C26: remove(x, y) at a coordinate where the tree holds no point changes
\* nothing: size() is what it was, and at(p) returns what it returned, for every
\* point p the tree holds.
C26_RemoveAbsent ==
    [][(q_call'.op = "remove" /\ HeldAt(CallPoint') = {}) =>
          /\ q_size' = q_size
          /\ \A l \in Held : (QuadAt(<<l.x, l.y>>))' = QuadAt(<<l.x, l.y>>)]_vars

\* C27: insert(x, y, v) with (x, y) outside the bounds of the root leaves
\* size() as it is, in an empty tree too, and no leaf holds a point outside its
\* own bounds.
C27_InsertOutside ==
    [][(q_call'.op = "insert" /\ CallPoint' \notin InPoints) =>
          /\ q_size' = q_size
          /\ \A l \in Held' : isInside(l.bound, l.x, l.y)]_vars

\* The last call removes the point of leaf l: remove(x, y) the point at (x, y),
\* remove_all(v) the points of value v.
Removes(call, l) ==
    IF call.op = "remove" THEN l.x = call.x /\ l.y = call.y ELSE l.data = call.item

\* C35: after remove(x, y) or remove_all(v), every point the tree held, other
\* than the removed ones, is still returned by at() with its value, and size()
\* is the number of these points: no point of a divided child is discarded
\* when a quadrant is collapsed onto its single non-empty child.
C35_RemovalFrame ==
    [][q_call'.op \in {"remove", "remove_all"} =>
          /\ \A l \in Held : ~Removes(q_call', l) =>
                 (QuadAt(<<l.x, l.y>>))' = Stored(l.data)
          /\ q_size' = Cardinality({l \in Held : ~Removes(q_call', l)})]_vars

\* ================================================== quadtree_region: claims

\* at(x, y) of the region quadtree, once insert has allocated the root.
RegionAt(p) == region_get_value(q_root[1], p[1], p[2])

\* The divided quadrants of the tree below q.
RECURSIVE Internals(_)
Internals(q) ==
    IF HasKids(q) THEN {q} \cup UNION {Internals(q.kids[i]) : i \in NE .. SE} ELSE {}

\* C28: after every set or unset, no divided quadrant has four children that
\* are leaves holding the same value.
C28_NoUniformNode ==
    q_root # << >> => \A n \in Internals(q_root[1]) : ~Uniform(n)

\* C29: after every set or unset of cells inside the bounds, size() is the
\* number of cells (x, y) at which at(x, y) is true.
C29_SizeCountsTrueCells ==
    q_root # << >> => q_size = Cardinality({p \in InPoints : RegionAt(p)})

\* C30: after every set or unset, at(x, y) is, for every cell inside the
\* bounds, the value last written to that cell, false when it was never
\* written: a call changes the value of no other cell.
C30_MatchesGrid ==
    q_root # << >> => \A p \in InPoints : RegionAt(p) = q_ref[p]

\* C31: on the 4x4 region, once set has been called on each of the 16 cells,
\* one at a time and in any order, the tree is a single leaf holding true,
\* depth() is 0 and size() is 16.
C31_FullMerge ==
    (\A p \in InPoints : q_ref[p]) =>
        /\ q_root # << >>
        /\ ~HasKids(q_root[1])
        /\ q_root[1].data = TRUE
        /\ q_depth = 0
        /\ q_size = QWidth * QWidth

\* The sixteenth set has merged the whole region.
C31_Witness ==
    /\ q_ops = QWidth * QWidth
    /\ \A p \in InPoints : q_ref[p]
    /\ q_root # << >> /\ ~HasKids(q_root[1]) /\ q_size = QWidth * QWidth

\* C32: when distinct cells are set and then unset one at a time, each unset
\* makes size() one less, and once every cell has been unset size() is 0 and
\* depth() is 0.
C32_RoundTrip ==
    [][q_call'.op = "unset" =>
         /\ q_size' = q_size - 1
         /\ (\A p \in InPoints : ~q_ref'[p]) => q_size' = 0 /\ q_depth' = 0]_vars

\* ================================================= pipeline: further claims

\* C33: in every state m_jobs_in_pipeline is the number of feed calls started
\* minus the number of items the final stage has finished; no item is finished
\* twice and the counter is never below zero.
C33_CounterAccounting ==
    /\ m_jobs_in_pipeline = fed - Len(finished)
    /\ m_jobs_in_pipeline >= 0
    /\ \A i, j \in 1 .. Len(finished) : finished[i] = finished[j] => i = j

\* The final stage has finished one item while others are still in the pipeline.
C33_Witness ==
    /\ Len(finished) >= 1
    /\ fed = MaxFeed
    /\ m_jobs_in_pipeline = MaxFeed - Len(finished)
    /\ m_jobs_in_pipeline >= 1

\* ===================================================== map: further claims

\* C34: after every public insert or erase has returned, the parent link of
\* every child designates the node that has it as left or right child, and the
\* parent link of the root is empty.
C34_ParentConsistency ==
    ~mfault =>
        /\ m_root # Nil => nodes[m_root].parent = Nil
        /\ \A n \in TreeNodes :
              /\ nodes[n].left # Nil => nodes[nodes[n].left].parent = n
              /\ nodes[n].right # Nil => nodes[nodes[n].right].parent = n

\* C36: while the continue flag is set, a waiting list that holds a fed item
\* does not stay as it is: the stage-0 worker does not remain blocked on its
\* condition variable and the items are eventually taken, whatever the
\* interleaving of feed with the worker's predicate and wait.
C36_NoLostWakeup ==
    (Len(m_waiting_list) > 0 /\ m_continue) ~> (Len(m_waiting_list) = 0 \/ ~m_continue)

\* C37: when stop() has returned (called by the client or by wait_end), the
\* waiting-list mutex and the mutex of every stage are free: no worker has
\* exited holding one, also when the waiting list still holds items.
C37_StopLeavesMutexesFree ==
    cpc \in {"stop_ret", "we_ret"} =>
        /\ m_waiting_list_access = "free"
        /\ \A s \in Stages : m_mutexes[s] = "free"

\* =============================================== worker_thread: further claims

\* C38: the thread that wait_for_join removes from the worker list has been
\* joined, also when a running work has appended threads to the list with
\* new_work since wait_for_join was called.
C38_JoinedBeforeRemoved ==
    [][Len(m_workers') < Len(m_workers) => m_workers[Len(m_workers)] \in joined]_vars

\* C39: whenever the pool mutex is free, a non-empty backlog implies that the
\* active-thread counter equals max_threads; and a step that decrements the
\* counter is taken by the holder of the mutex, with the backlog empty.
C39_BacklogInvariant ==
    /\ []((m_mutex = {} /\ Len(wt_waiting_list) > 0) => m_active_threads = max_threads)
    /\ [][m_active_threads' < m_active_threads =>
            /\ Len(wt_waiting_list) = 0
            /\ \E t \in PoolThreads : m_mutex = {t} /\ wtpc[t] = "locked"]_vars

\* A work waits in the backlog while every thread slot is taken and the mutex
\* is free, and a worker has left after it found the backlog empty.
C39_Witness ==
    /\ m_mutex = {}
    /\ Len(wt_waiting_list) > 0
    /\ max_threads >= 1
    /\ m_active_threads = max_threads
    /\ \E t \in PoolThreads : wtpc[t] = "done"

\* C40: no thread holds the pool mutex while the callable of its work runs,
\* the first work of the thread or one taken from the backlog: the holder of
\* the mutex is in the critical section of worker() or inside new_work.
C40_MutexFreeWhileRunning ==
    \A t \in PoolThreads :
        /\ wtpc[t] \in {"first", "run"} => t \notin m_mutex
        /\ t \in m_mutex => wtpc[t] \in {"locked", "first_new_work", "run_new_work"}

\* A running work is inside new_work, holding the mutex, while another worker
\* runs its work.
C40_Witness ==
    \E t, u \in PoolThreads :
        /\ t # u
        /\ wtpc[t] \in {"first_new_work", "run_new_work"}
        /\ m_mutex = {t}
        /\ wtpc[u] \in {"first", "run"}

==============================================================================
